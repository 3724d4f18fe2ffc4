------------------------- MODULE RouterSocketProofs -------------------------
(***************************************************************************)
(* Proofs about RouterSocket, for any set of nodes, number of messages and  *)
(* high watermark: its variables have their types, a message that a send   *)
(* has emptied is never on its way to anybody, and every message is in one *)
(* place from when it is made to when it is destroyed.                     *)
(***************************************************************************)
EXTENDS RouterSocket, SequenceTheorems, TLAPS

(* The target and the body of a message leave together: what has a node as *)
(* its target has a body.                                                  *)
Whole == [target : Node, body : Body]

IInv ==
  /\ mandatory \subseteq Node
  /\ bound \subseteq Node
  /\ connects \in [Node -> SUBSET Node]
  /\ peers \in [Node -> SUBSET Node]
  /\ pipe \in [Node \X Node -> Seq(Body)]
  /\ left \in [Node -> Seq(Whole)]
  /\ object \in [Node -> Whole \union {Emptied}]
  /\ sending \in [Node -> Whole \union {Emptied, Idle}]
  /\ made \in 0..MaxMade
  /\ over \subseteq Body

LEMMA InitIInv == Init => IInv
BY RouterAssumption DEF Init, IInv

LEMMA NextIInv == IInv /\ [Next]_vars => IInv'
<1> SUFFICES ASSUME IInv, [Next]_vars PROVE IInv'
  OBVIOUS
<1> USE RouterAssumption DEF IInv
<1>d. ASSUME NEW bodies, bodies \subseteq Body \union {NoBody}, Destroy(bodies)
      PROVE  over' \subseteq Body
  BY <1>d DEF Destroy
<1>w. \A n \in Node : object[n].body \in Body \union {NoBody}
  BY DEF Whole, Emptied
<1>s. ASSUME NEW n \in Node, sending[n] # Idle
      PROVE  sending[n].body \in Body \union {NoBody}
  BY <1>s DEF Whole, Emptied
<1>1. ASSUME NEW n \in Node, Bind(n) PROVE IInv'
  BY <1>1 DEF Bind, messageVars
<1>2. ASSUME NEW n \in Node, NEW p \in Node, Connect(n, p) PROVE IInv'
  BY <1>2 DEF Connect, messageVars
<1>3. ASSUME NEW n \in Node, NEW p \in Node, Identified(n, p) PROVE IInv'
  BY <1>3 DEF Identified, messageVars
<1>c. ASSUME NEW a \in Node, NEW b \in Node, Cut(a, b)
      PROVE  /\ peers' \in [Node -> SUBSET Node]
             /\ pipe' \in [Node \X Node -> Seq(Body)]
             /\ left' \in [Node -> Seq(Whole)]
             /\ over' \subseteq Body
  <2> DEFINE s == pipe[<<a, b>>]
             t == pipe[<<b, a>>]
  <2>1. s \in Seq(Body) /\ t \in Seq(Body)
    OBVIOUS
  <2>2. PICK i \in 0..Len(s), j \in 0..Len(t) :
          /\ left' = [n \in Node |->
               left[n] \o (IF n = b THEN From(a, SubSeq(s, 1, i))
                           ELSE IF n = a THEN From(b, SubSeq(t, 1, j)) ELSE <<>>)]
          /\ Destroy({s[k] : k \in i+1..Len(s)} \union {t[k] : k \in j+1..Len(t)})
    BY <1>c DEF Cut
  <2>3. ASSUME NEW u \in Seq(Body), NEW k \in 0..Len(u), NEW n \in Node
        PROVE  From(n, SubSeq(u, 1, k)) \in Seq(Whole)
    <3>1. SubSeq(u, 1, k) \in Seq(Body)
      OBVIOUS
    <3>2. ASSUME NEW v \in Seq(Body)
          PROVE  [m \in 1..Len(v) |-> [target |-> n, body |-> v[m]]] \in Seq(Whole)
      <4>1. \A m \in 1..Len(v) : [target |-> n, body |-> v[m]] \in Whole
        BY DEF Whole
      <4> QED
        BY <4>1
    <3> QED
      BY <3>1, <3>2 DEF From
  <2>4. From(a, SubSeq(s, 1, i)) \in Seq(Whole) /\ From(b, SubSeq(t, 1, j)) \in Seq(Whole)
    BY <2>1, <2>3
  <2>5. left' \in [Node -> Seq(Whole)]
    <3>1. ASSUME NEW n \in Node
          PROVE  left[n] \o (IF n = b THEN From(a, SubSeq(s, 1, i))
                             ELSE IF n = a THEN From(b, SubSeq(t, 1, j)) ELSE <<>>)
                   \in Seq(Whole)
      <4>1. \A u, v \in Seq(Whole) : u \o v \in Seq(Whole)
        OBVIOUS
      <4> QED
        BY <2>4, <4>1
    <3> QED
      BY <2>2, <3>1
  <2>6. {s[k] : k \in i+1..Len(s)} \union {t[k] : k \in j+1..Len(t)} \subseteq Body
    BY <2>1
  <2>7. over' \subseteq Body
    BY <2>2, <2>6, <1>d
  <2>8. pipe' = [pipe EXCEPT ![<<a, b>>] = <<>>, ![<<b, a>>] = <<>>]
    BY <1>c DEF Cut
  <2>9. pipe' \in [Node \X Node -> Seq(Body)]
    <3>1. <<>> \in Seq(Body) /\ <<a, b>> \in Node \X Node /\ <<b, a>> \in Node \X Node
      OBVIOUS
    <3> QED
      BY <2>8, <3>1
  <2>10. peers' \in [Node -> SUBSET Node]
    BY <1>c DEF Cut
  <2> QED
    BY <2>5, <2>7, <2>9, <2>10
<1>4. ASSUME NEW a \in Node, NEW b \in Node, LinkLost(a, b) PROVE IInv'
  <2>1. Cut(a, b) /\ UNCHANGED connects
    BY <1>4 DEF LinkLost
  <2>2. UNCHANGED <<mandatory, bound, object, sending, made>>
    BY <2>1 DEF Cut
  <2> QED
    BY <2>1, <2>2, <1>c
<1>5. ASSUME NEW n \in Node, NEW p \in Node, Disconnect(n, p) PROVE IInv'
  <2>1. connects' \in [Node -> SUBSET Node]
    BY <1>5 DEF Disconnect
  <2>2. Cut(n, p)
    BY <1>5 DEF Disconnect
  <2>3. UNCHANGED <<mandatory, bound, object, sending, made>>
    BY <2>2 DEF Cut
  <2> QED
    BY <2>1, <2>2, <2>3, <1>c
<1>6. ASSUME NEW n \in Node, NEW p \in Node, Make(n, p) PROVE IInv'
  <2>1. over' \subseteq Body
    BY <1>6, <1>d, <1>w DEF Make
  <2>2. made' \in Body /\ made' \in 0..MaxMade
    BY <1>6 DEF Make, Body
  <2>3. object' \in [Node -> Whole \union {Emptied}]
    BY <1>6, <2>2 DEF Make, Whole
  <2> QED
    BY <1>6, <2>1, <2>2, <2>3 DEF Make, linkVars
<1>7. ASSUME NEW n \in Node, StartSend(n) PROVE IInv'
  BY <1>7 DEF StartSend, linkVars
<1>8. ASSUME NEW n \in Node, SendQueued(n) PROVE IInv'
  <2> DEFINE t == sending[n].target
  <2>1. sending[n] \in Whole
    <3>1. t \in Node
      BY <1>8 DEF SendQueued
    <3> QED
      BY <1>8, <3>1 DEF SendQueued, Emptied
  <2>2. t \in Node /\ sending[n].body \in Body
    BY <2>1 DEF Whole
  <2>3. pipe' = [pipe EXCEPT ![<<n, t>>] = Append(@, sending[n].body)]
    BY <1>8 DEF SendQueued
  <2>4. pipe' \in [Node \X Node -> Seq(Body)]
    BY <2>2, <2>3
  <2> QED
    BY <1>8, <2>4 DEF SendQueued, linkVars
<1>9. ASSUME NEW n \in Node, SendThrows(n) \/ SendDropped(n) PROVE IInv'
  <2>1. over' \subseteq Body
    <3>1. {sending[n].body} \subseteq Body \union {NoBody}
      BY <1>9, <1>s DEF SendThrows, SendDropped
    <3>2. Destroy({sending[n].body})
      BY <1>9 DEF SendThrows, SendDropped
    <3> QED
      BY <3>1, <3>2, <1>d
  <2> QED
    BY <1>9, <2>1 DEF SendThrows, SendDropped, linkVars
<1>10. ASSUME NEW n \in Node, Recv(n) PROVE IInv'
  <2>1. PICK p \in Node, b \in Body \union {NoBody} :
          /\ Dequeue(n, p, b)
          /\ IF p \in Foreign
             THEN Destroy({b}) /\ UNCHANGED object
             ELSE /\ object' = [object EXCEPT ![n] = [target |-> p, body |-> b]]
                  /\ Destroy({object[n].body})
    BY <1>10 DEF Recv
  <2>2. /\ b \in Body
        /\ pipe' \in [Node \X Node -> Seq(Body)]
        /\ left' \in [Node -> Seq(Whole)]
    <3>1. CASE /\ pipe[<<p, n>>] # <<>> /\ b = Head(pipe[<<p, n>>])
               /\ pipe' = [pipe EXCEPT ![<<p, n>>] = Tail(@)] /\ left' = left
      BY <3>1
    <3>2. CASE /\ left[n] # <<>> /\ Head(left[n]) = [target |-> p, body |-> b]
               /\ left' = [left EXCEPT ![n] = Tail(@)] /\ pipe' = pipe
      <4>1. Head(left[n]) \in Whole /\ Tail(left[n]) \in Seq(Whole)
        BY <3>2
      <4>2. b \in Body
        BY <3>2, <4>1 DEF Whole
      <4> QED
        BY <3>2, <4>1, <4>2
    <3> QED
      BY <2>1, <3>1, <3>2 DEF Dequeue
  <2>3. over' \subseteq Body
    <3>1. Destroy({b}) \/ Destroy({object[n].body})
      BY <2>1
    <3>2. CASE Destroy({b})
      <4>1. {b} \subseteq Body \union {NoBody}
        BY <2>2
      <4> QED
        BY <3>2, <4>1, <1>d
    <3>3. CASE Destroy({object[n].body})
      <4>1. {object[n].body} \subseteq Body \union {NoBody}
        BY <1>w
      <4> QED
        BY <3>3, <4>1, <1>d
    <3> QED
      BY <3>1, <3>2, <3>3
  <2>4. object' \in [Node -> Whole \union {Emptied}]
    <3>1. [target |-> p, body |-> b] \in Whole
      BY <2>2 DEF Whole
    <3>2. CASE p \in Foreign
      BY <2>1, <3>2
    <3>3. CASE p \notin Foreign
      <4>1. object' = [object EXCEPT ![n] = [target |-> p, body |-> b]]
        BY <2>1, <3>3
      <4> QED
        BY <3>1, <4>1
    <3> QED
      BY <3>2, <3>3
  <2> QED
    BY <1>10, <2>2, <2>3, <2>4 DEF Recv, linkVars
<1>11. CASE UNCHANGED vars
  BY <1>11 DEF vars
<1> QED
  BY <1>1, <1>2, <1>3, <1>4, <1>5, <1>6, <1>7, <1>8, <1>9, <1>10, <1>11
     DEF Next, SendReturns

LEMMA InductiveInv == Spec => []IInv
BY InitIInv, NextIInv, PTL DEF Spec

-----------------------------------------------------------------------------
(* Every variable has its type.                                            *)
THEOREM TypeCorrect == Spec => []TypeOK
<1>1. IInv => TypeOK
  <2> SUFFICES ASSUME IInv PROVE TypeOK
    OBVIOUS
  <2>1. Whole \subseteq Parts /\ Emptied \in Parts
    BY DEF Whole, Parts, Emptied
  <2>2. left \in [Node -> Seq(Parts)]
    BY <2>1 DEF IInv
  <2>3. pipe \in [Node \X Node -> Seq(Body \union {NoBody})]
    BY DEF IInv
  <2> QED
    BY <2>1, <2>2, <2>3 DEF IInv, TypeOK
<1> QED
  BY InductiveInv, <1>1, PTL

(***************************************************************************)
(* Nobody receives the remains of a message that was sent before: send     *)
(* takes the target out of the message together with the body.             *)
(***************************************************************************)
THEOREM OnlyWholeMessages == Spec => []OnlyWholeArrive
<1>1. IInv => OnlyWholeArrive
  <2> SUFFICES ASSUME IInv PROVE OnlyWholeArrive
    OBVIOUS
  <2> USE RouterAssumption DEF IInv
  <2>1. ASSUME NEW l \in Node \X Node, NEW i \in 1..Len(pipe[l]) PROVE pipe[l][i] # NoBody
    <3>1. pipe[l] \in Seq(Body)
      OBVIOUS
    <3>2. pipe[l][i] \in Body
      BY <3>1
    <3> QED
      BY <3>2 DEF Body, NoBody
  <2>2. ASSUME NEW n \in Node, NEW i \in 1..Len(left[n]) PROVE left[n][i].body # NoBody
    <3>1. left[n][i] \in Whole
      OBVIOUS
    <3> QED
      BY <3>1 DEF Whole, Body, NoBody
  <2> QED
    BY <2>1, <2>2 DEF OnlyWholeArrive
<1> QED
  BY InductiveInv, <1>1, PTL

-----------------------------------------------------------------------------
(***************************************************************************)
(* Where a message is.  Every body b has one place w, or none as long as   *)
(* it has not been made, and every step moves it from its place to one.    *)
(***************************************************************************)
AtObject(n) == <<"object", n>>
AtSend(n) == <<"send", n>>
AtPipe(l, i) == <<"pipe", l, i>>
AtLeft(n, i) == <<"left", n, i>>
Over == <<"over">>
Unmade == <<"unmade">>

LEMMA PlacesDiffer ==
  /\ \A n, m : AtObject(n) = AtObject(m) => n = m
  /\ \A n, m : AtSend(n) = AtSend(m) => n = m
  /\ \A l, i, k, j : AtPipe(l, i) = AtPipe(k, j) => l = k /\ i = j
  /\ \A n, i, m, j : AtLeft(n, i) = AtLeft(m, j) => n = m /\ i = j
  /\ \A n, m : AtObject(n) # AtSend(m)
  /\ \A n, l, i : AtObject(n) # AtPipe(l, i) /\ AtSend(n) # AtPipe(l, i)
  /\ \A n, m, i : AtObject(n) # AtLeft(m, i) /\ AtSend(n) # AtLeft(m, i)
  /\ \A l, i, m, j : AtPipe(l, i) # AtLeft(m, j)
  /\ \A n : AtObject(n) # Over /\ AtSend(n) # Over
  /\ \A x, i : AtPipe(x, i) # Over /\ AtLeft(x, i) # Over
  /\ \A n : AtObject(n) # Unmade /\ AtSend(n) # Unmade
  /\ \A x, i : AtPipe(x, i) # Unmade /\ AtLeft(x, i) # Unmade
  /\ Over # Unmade
BY DEF AtObject, AtSend, AtPipe, AtLeft, Over, Unmade

(* b is in no place but w, and it is in w.                                 *)
SoleObject(w, b) == \A n \in Node : object[n].body = b => w = AtObject(n)
SoleSend(w, b) == \A n \in Node : sending[n] # Idle /\ sending[n].body = b => w = AtSend(n)
SolePipe(w, b) ==
  \A l \in Node \X Node : \A i \in 1..Len(pipe[l]) : pipe[l][i] = b => w = AtPipe(l, i)
SoleLeft(w, b) ==
  \A n \in Node : \A i \in 1..Len(left[n]) : left[n][i].body = b => w = AtLeft(n, i)
SoleOver(w, b) == b \in over => w = Over
Sole(w, b) ==
  SoleObject(w, b) /\ SoleSend(w, b) /\ SolePipe(w, b) /\ SoleLeft(w, b) /\ SoleOver(w, b)

HeldObject(w, b) == \E n \in Node : w = AtObject(n) /\ object[n].body = b
HeldSend(w, b) == \E n \in Node : w = AtSend(n) /\ sending[n] # Idle /\ sending[n].body = b
HeldPipe(w, b) ==
  \E l \in Node \X Node : \E i \in 1..Len(pipe[l]) : w = AtPipe(l, i) /\ pipe[l][i] = b
HeldLeft(w, b) ==
  \E n \in Node : \E i \in 1..Len(left[n]) : w = AtLeft(n, i) /\ left[n][i].body = b
HeldOver(w, b) == w = Over /\ b \in over
Held(w, b) ==
  HeldObject(w, b) \/ HeldSend(w, b) \/ HeldPipe(w, b) \/ HeldLeft(w, b) \/ HeldOver(w, b)

Tracked(b) == \E w : Sole(w, b) /\ (IF b <= made THEN Held(w, b) ELSE w = Unmade)
TrackedInv == \A b \in Body : Tracked(b)

LEMMA WhereIs ==
  ASSUME IInv, NEW b
  PROVE  /\ \A w : Sole(w, b) /\ Held(w, b) => Where(b) = {w}
         /\ Sole(Unmade, b) => Where(b) = {}
<1> DEFINE O == {<<"object", n>> : n \in {m \in Node : object[m].body = b}}
           S == {<<"send", n>> : n \in {m \in Node : sending[m] # Idle /\ sending[m].body = b}}
           P == UNION {{<<"pipe", l, i>> : i \in {j \in DOMAIN pipe[l] : pipe[l][j] = b}} :
                         l \in Node \X Node}
           L == UNION {{<<"left", n, i>> : i \in {j \in DOMAIN left[n] : left[n][j].body = b}} :
                         n \in Node}
           V == {<<"over">> : x \in over \intersect {b}}
<1>1. Where(b) = O \union S \union P \union L \union V
  BY DEF Where
<1>2. \A w : w \in O <=> \E n \in Node : w = AtObject(n) /\ object[n].body = b
  BY DEF AtObject
<1>3. \A w : w \in S <=> \E n \in Node : w = AtSend(n) /\ sending[n] # Idle /\ sending[n].body = b
  BY DEF AtSend
<1>4. \A w : w \in P <=> \E l \in Node \X Node : \E i \in 1..Len(pipe[l]) :
                           w = AtPipe(l, i) /\ pipe[l][i] = b
  <2>1. \A l \in Node \X Node : DOMAIN pipe[l] = 1..Len(pipe[l])
    BY DEF IInv
  <2> QED
    BY <2>1 DEF AtPipe
<1>5. \A w : w \in L <=> \E n \in Node : \E i \in 1..Len(left[n]) :
                           w = AtLeft(n, i) /\ left[n][i].body = b
  <2>1. \A n \in Node : DOMAIN left[n] = 1..Len(left[n])
    BY DEF IInv
  <2> QED
    BY <2>1 DEF AtLeft
<1>6. \A w : w \in V <=> w = Over /\ b \in over
  BY DEF Over
<1> HIDE DEF O, S, P, L, V
<1>7. \A w : w \in Where(b) <=> Held(w, b)
  BY <1>1, <1>2, <1>3, <1>4, <1>5, <1>6
     DEF Held, HeldObject, HeldSend, HeldPipe, HeldLeft, HeldOver
<1>8. \A w, v : Sole(w, b) /\ Held(v, b) => v = w
  BY DEF Sole, SoleObject, SoleSend, SolePipe, SoleLeft, SoleOver,
         Held, HeldObject, HeldSend, HeldPipe, HeldLeft, HeldOver
<1>9. ~Held(Unmade, b)
  BY PlacesDiffer DEF Held, HeldObject, HeldSend, HeldPipe, HeldLeft, HeldOver
<1>10. ASSUME NEW w, Sole(w, b), Held(w, b) PROVE Where(b) = {w}
  BY <1>7, <1>8, <1>10
<1>11. ASSUME Sole(Unmade, b) PROVE Where(b) = {}
  BY <1>7, <1>8, <1>9, <1>11
<1> QED
  BY <1>10, <1>11

LEMMA InitTracked == Init => TrackedInv
<1> SUFFICES ASSUME Init, NEW b \in Body PROVE Tracked(b)
  BY DEF TrackedInv
<1>1. /\ \A n \in Node : object[n].body # b /\ sending[n] = Idle /\ left[n] = <<>>
      /\ \A l \in Node \X Node : pipe[l] = <<>>
      /\ over = {} /\ made = 0
  BY DEF Init, Emptied, NoBody, Body
<1>2. Sole(Unmade, b)
  BY <1>1 DEF Sole, SoleObject, SoleSend, SolePipe, SoleLeft, SoleOver
<1>3. ~(b <= made)
  BY <1>1 DEF Body
<1> QED
  BY <1>2, <1>3 DEF Tracked

(* b is nowhere among the objects, the sends, the pipes, what was left.    *)
NoObject(b) == \A n \in Node : object[n].body # b
NoSend(b) == \A n \in Node : sending[n] = Idle \/ sending[n].body # b
NoPipe(b) == \A l \in Node \X Node : \A i \in 1..Len(pipe[l]) : pipe[l][i] # b
NoLeft(b) == \A n \in Node : \A i \in 1..Len(left[n]) : left[n][i].body # b

LEMMA Elsewhere ==
  ASSUME NEW b
  PROVE  /\ \A n : Sole(AtObject(n), b) =>
              /\ \A m \in Node : object[m].body = b => m = n
              /\ NoSend(b) /\ NoPipe(b) /\ NoLeft(b) /\ b \notin over
         /\ \A n : Sole(AtSend(n), b) =>
              /\ \A m \in Node : sending[m] # Idle /\ sending[m].body = b => m = n
              /\ NoObject(b) /\ NoPipe(b) /\ NoLeft(b) /\ b \notin over
         /\ \A l, i : Sole(AtPipe(l, i), b) =>
              /\ \A k \in Node \X Node : \A j \in 1..Len(pipe[k]) :
                   pipe[k][j] = b => k = l /\ j = i
              /\ NoObject(b) /\ NoSend(b) /\ NoLeft(b) /\ b \notin over
         /\ \A n, i : Sole(AtLeft(n, i), b) =>
              /\ \A m \in Node : \A j \in 1..Len(left[m]) :
                   left[m][j].body = b => m = n /\ j = i
              /\ NoObject(b) /\ NoSend(b) /\ NoPipe(b) /\ b \notin over
<1> USE PlacesDiffer
    DEF Sole, SoleObject, SoleSend, SolePipe, SoleLeft, SoleOver, NoObject, NoSend, NoPipe, NoLeft
<1>1. ASSUME NEW n, Sole(AtObject(n), b)
      PROVE  /\ \A m \in Node : object[m].body = b => m = n
             /\ NoSend(b) /\ NoPipe(b) /\ NoLeft(b) /\ b \notin over
  BY <1>1
<1>2. ASSUME NEW n, Sole(AtSend(n), b)
      PROVE  /\ \A m \in Node : sending[m] # Idle /\ sending[m].body = b => m = n
             /\ NoObject(b) /\ NoPipe(b) /\ NoLeft(b) /\ b \notin over
  BY <1>2
<1>3. ASSUME NEW l, NEW i, Sole(AtPipe(l, i), b)
      PROVE  /\ \A k \in Node \X Node : \A j \in 1..Len(pipe[k]) :
                  pipe[k][j] = b => k = l /\ j = i
             /\ NoObject(b) /\ NoSend(b) /\ NoLeft(b) /\ b \notin over
  BY <1>3
<1>4. ASSUME NEW n, NEW i, Sole(AtLeft(n, i), b)
      PROVE  /\ \A m \in Node : \A j \in 1..Len(left[m]) :
                  left[m][j].body = b => m = n /\ j = i
             /\ NoObject(b) /\ NoSend(b) /\ NoPipe(b) /\ b \notin over
  BY <1>4
<1> QED
  BY <1>1, <1>2, <1>3, <1>4

(***************************************************************************)
(* A step moves the body b: if it was in no place but w, it is in one, v.  *)
(***************************************************************************)
Moves(w, v, b) ==
  /\ Sole(v, b)'
  /\ Held(w, b) => Held(v, b)'
  /\ w = Unmade => v = Unmade

LEMMA StartSendMoves ==
  ASSUME IInv, NEW n \in Node, StartSend(n), NEW b \in Body, NEW w, Sole(w, b)
  PROVE  \E v : Moves(w, v, b)
<1> USE DEF IInv, Sole, SoleObject, SoleSend, SolePipe, SoleLeft, SoleOver,
            Held, HeldObject, HeldSend, HeldPipe, HeldLeft, HeldOver
<1>1. /\ sending[n] = Idle
      /\ sending' = [sending EXCEPT ![n] = object[n]]
      /\ object' = [object EXCEPT ![n] = Emptied]
      /\ pipe' = pipe /\ left' = left /\ over' = over
  BY DEF StartSend
<1>2. object[n] # Idle /\ b # NoBody
  BY RouterAssumption DEF Whole, Emptied, Body, NoBody
<1>3. CASE object[n].body = b
  <2>1. w = AtObject(n)
    BY <1>3
  <2>2. /\ \A m \in Node : object[m].body = b => m = n
        /\ NoSend(b) /\ NoPipe(b) /\ NoLeft(b) /\ b \notin over
    BY <2>1, Elsewhere
  <2>3. Sole(AtSend(n), b)'
    BY <1>1, <1>2, <2>2 DEF NoSend, NoPipe, NoLeft, Emptied
  <2>4. Held(AtSend(n), b)'
    BY <1>1, <1>2, <1>3
  <2> HIDE DEF Sole, Held
  <2> QED
    BY <2>1, <2>3, <2>4, PlacesDiffer DEF Moves
<1>4. CASE object[n].body # b
  <2>1. Sole(w, b)'
    BY <1>1, <1>2, <1>4 DEF Emptied
  <2>2. Held(w, b) => Held(w, b)'
    BY <1>1, <1>2, <1>4
  <2> QED
    BY <2>1, <2>2 DEF Moves
<1> QED
  BY <1>3, <1>4

LEMMA SendQueuedMoves ==
  ASSUME IInv, NEW n \in Node, SendQueued(n), NEW b \in Body, NEW w, Sole(w, b)
  PROVE  \E v : Moves(w, v, b)
<1> USE DEF Sole, SoleObject, SoleSend, SolePipe, SoleLeft, SoleOver,
            Held, HeldObject, HeldSend, HeldPipe, HeldLeft, HeldOver
<1>1. PICK l \in Node \X Node :
        /\ sending[n] # Idle
        /\ sending' = [sending EXCEPT ![n] = Idle]
        /\ pipe' = [pipe EXCEPT ![l] = Append(@, sending[n].body)]
        /\ object' = object /\ left' = left /\ over' = over
  <2> DEFINE t == sending[n].target
  <2>1. t \in Node
    BY DEF SendQueued, IInv
  <2>2. <<n, t>> \in Node \X Node
    BY <2>1
  <2> QED
    BY <2>2 DEF SendQueued
<1>2. /\ \A k \in Node \X Node : k # l => pipe'[k] = pipe[k]
      /\ pipe'[l] = Append(pipe[l], sending[n].body)
      /\ pipe[l] \in Seq(Body)
  BY <1>1 DEF IInv
<1>e. PICK e \in Nat \ {0} : e = Len(pipe[l]) + 1
  BY <1>2
<1>3. /\ Len(pipe'[l]) = e /\ 1..Len(pipe[l]) = 1..e - 1
      /\ \A i \in 1..e - 1 : pipe'[l][i] = pipe[l][i]
      /\ pipe'[l][e] = sending[n].body
  BY <1>2, <1>e
<1>4. CASE sending[n].body = b
  <2>1. w = AtSend(n)
    BY <1>1, <1>4
  <2>2. /\ \A m \in Node : sending[m] # Idle /\ sending[m].body = b => m = n
        /\ NoObject(b) /\ NoPipe(b) /\ NoLeft(b) /\ b \notin over
    BY <2>1, Elsewhere
  <2>3. SoleObject(AtPipe(l, e), b)' /\ SoleLeft(AtPipe(l, e), b)' /\ SoleOver(AtPipe(l, e), b)'
    BY <1>1, <2>2 DEF NoObject, NoLeft
  <2>4. SoleSend(AtPipe(l, e), b)'
    BY <1>1, <2>2 DEF IInv
  <2>5. SolePipe(AtPipe(l, e), b)'
    <3>1. \A i \in 1..e : i = e \/ i \in 1..e - 1
      BY <1>3
    <3> QED
      BY <1>2, <1>3, <2>2, <3>1 DEF NoPipe
  <2>6. e \in 1..Len(pipe'[l])
    BY <1>3
  <2>7. HeldPipe(AtPipe(l, e), b)'
    BY <1>3, <1>4, <2>6
  <2> HIDE DEF Sole, Held
  <2>8. Sole(AtPipe(l, e), b)' /\ Held(AtPipe(l, e), b)'
    BY <2>3, <2>4, <2>5, <2>7 DEF Sole, Held
  <2> QED
    BY <2>1, <2>8, PlacesDiffer DEF Moves
<1>5. CASE sending[n].body # b
  <2>0. ASSUME NEW k \in Node \X Node, NEW i
        PROVE  i \in 1..Len(pipe'[k]) /\ pipe'[k][i] = b
                 <=> i \in 1..Len(pipe[k]) /\ pipe[k][i] = b
    <3>1. CASE k # l
      BY <1>2, <3>1
    <3>2. CASE k = l
      <4>1. i \in 1..e <=> i = e \/ i \in 1..e - 1
        BY <1>e
      <4>2. e \notin 1..e - 1
        BY <1>e
      <4> QED
        BY <1>3, <1>5, <3>2, <4>1, <4>2
    <3> QED
      BY <3>1, <3>2
  <2>1. SolePipe(w, b)'
    BY <2>0
  <2>2. SoleObject(w, b)' /\ SoleSend(w, b)' /\ SoleLeft(w, b)' /\ SoleOver(w, b)'
    BY <1>1 DEF IInv
  <2>3. HeldPipe(w, b) => HeldPipe(w, b)'
    BY <2>0
  <2>4. HeldSend(w, b) => HeldSend(w, b)'
    BY <1>1, <1>5 DEF IInv
  <2>5. HeldObject(w, b) \/ HeldLeft(w, b) \/ HeldOver(w, b) => Held(w, b)'
    BY <1>1
  <2> QED
    BY <2>1, <2>2, <2>3, <2>4, <2>5 DEF Moves
<1> QED
  BY <1>4, <1>5

LEMMA SendOverMoves ==
  ASSUME IInv, NEW n \in Node, SendThrows(n) \/ SendDropped(n),
         NEW b \in Body, NEW w, Sole(w, b)
  PROVE  \E v : Moves(w, v, b)
<1> USE DEF IInv, Sole, SoleObject, SoleSend, SolePipe, SoleLeft, SoleOver,
            Held, HeldObject, HeldSend, HeldPipe, HeldLeft, HeldOver
<1>1. /\ sending[n] # Idle
      /\ sending' = [sending EXCEPT ![n] = Idle]
      /\ over' = over \union ({sending[n].body} \ {NoBody})
      /\ object' = object /\ pipe' = pipe /\ left' = left
  BY DEF SendThrows, SendDropped, Destroy
<1>2. b # NoBody
  BY DEF Body, NoBody
<1>3. CASE sending[n].body = b
  <2>1. w = AtSend(n)
    BY <1>1, <1>3
  <2>2. /\ \A m \in Node : sending[m] # Idle /\ sending[m].body = b => m = n
        /\ NoObject(b) /\ NoPipe(b) /\ NoLeft(b) /\ b \notin over
    BY <2>1, Elsewhere
  <2>3. Sole(Over, b)'
    BY <1>1, <1>2, <2>2 DEF NoObject, NoPipe, NoLeft
  <2>4. Held(Over, b)'
    BY <1>1, <1>2, <1>3
  <2> HIDE DEF Sole, Held
  <2> QED
    BY <2>1, <2>3, <2>4, PlacesDiffer DEF Moves
<1>4. CASE sending[n].body # b
  <2>1. Sole(w, b)'
    BY <1>1, <1>4
  <2>2. Held(w, b) => Held(w, b)'
    BY <1>1, <1>4
  <2> QED
    BY <2>1, <2>2 DEF Moves
<1> QED
  BY <1>3, <1>4

LEMMA MakeTracks ==
  ASSUME IInv, NEW n \in Node, NEW p \in Node, Make(n, p), NEW b \in Body, Tracked(b)
  PROVE  Tracked(b)'
<1> USE DEF IInv, Sole, SoleObject, SoleSend, SolePipe, SoleLeft, SoleOver,
            Held, HeldObject, HeldSend, HeldPipe, HeldLeft, HeldOver
<1>1. /\ made' = made + 1
      /\ object' = [object EXCEPT ![n] = [target |-> p, body |-> made']]
      /\ over' = over \union ({object[n].body} \ {NoBody})
      /\ pipe' = pipe /\ left' = left /\ sending' = sending
  BY DEF Make, Destroy
<1>2. made \in Nat /\ b \in Nat /\ b # NoBody
  BY RouterAssumption DEF Body, NoBody
<1>3. PICK w : Sole(w, b) /\ (IF b <= made THEN Held(w, b) ELSE w = Unmade)
  BY DEF Tracked
<1>4. object'[n].body = made + 1 /\ \A m \in Node : m # n => object'[m] = object[m]
  BY <1>1
<1>5. CASE b <= made /\ object[n].body = b
  <2>1. w = AtObject(n)
    BY <1>3, <1>5
  <2>2. /\ \A m \in Node : object[m].body = b => m = n
        /\ NoSend(b) /\ NoPipe(b) /\ NoLeft(b) /\ b \notin over
    BY <1>3, <2>1, Elsewhere
  <2>3. b # made + 1 /\ b <= made + 1
    BY <1>2, <1>5
  <2>4. Sole(Over, b)'
    BY <1>1, <1>4, <2>2, <2>3 DEF NoSend, NoPipe, NoLeft
  <2>5. Held(Over, b)'
    BY <1>1, <1>2, <1>5
  <2> HIDE DEF Sole, Held
  <2> QED
    BY <1>1, <2>3, <2>4, <2>5 DEF Tracked
<1>6. CASE b <= made /\ object[n].body # b
  <2>1. b # made + 1 /\ b <= made + 1
    BY <1>2, <1>6
  <2>2. Sole(w, b)'
    BY <1>1, <1>3, <1>4, <1>6, <2>1
  <2>3. Held(w, b)'
    BY <1>1, <1>3, <1>4, <1>6
  <2> HIDE DEF Sole, Held
  <2> QED
    BY <1>1, <2>1, <2>2, <2>3 DEF Tracked
<1>7. CASE ~(b <= made)
  <2>1. Sole(Unmade, b)
    BY <1>3, <1>7
  <2>2. NoObject(b) /\ NoSend(b) /\ NoPipe(b) /\ NoLeft(b) /\ b \notin over
    BY <2>1, PlacesDiffer DEF NoObject, NoSend, NoPipe, NoLeft
  <2>3. b \notin over'
    BY <1>1, <2>2 DEF NoObject
  <2>4. CASE b = made + 1
    <3>1. Sole(AtObject(n), b)'
      BY <1>1, <1>4, <2>2, <2>3 DEF NoObject, NoSend, NoPipe, NoLeft
    <3>2. Held(AtObject(n), b)'
      BY <1>4, <2>4
    <3>3. b <= made'
      BY <1>1, <1>2, <2>4
    <3> HIDE DEF Sole, Held
    <3> QED
      BY <3>1, <3>2, <3>3 DEF Tracked
  <2>5. CASE b # made + 1
    <3>1. Sole(Unmade, b)'
      BY <1>1, <1>4, <2>2, <2>3, <2>5 DEF NoObject, NoSend, NoPipe, NoLeft
    <3>2. ~(b <= made')
      BY <1>1, <1>2, <1>7, <2>5
    <3> HIDE DEF Sole, Held
    <3> QED
      BY <3>1, <3>2 DEF Tracked
  <2> QED
    BY <2>4, <2>5
<1> QED
  BY <1>5, <1>6, <1>7

(* b leaves the queues, which were its only place; or it is where it was,  *)
(* or one up in its queue, as far as the queues are concerned.             *)
Leaves(w, b) ==
  NoPipe(b)' /\ NoLeft(b)' /\ NoObject(b) /\ NoSend(b) /\ b \notin over /\ w # Unmade
Shifts(w, b) ==
  \E v :
    /\ SoleObject(v, b) /\ SoleSend(v, b) /\ SolePipe(v, b)' /\ SoleLeft(v, b)'
    /\ SoleOver(v, b)
    /\ Held(w, b) => \/ HeldObject(v, b) \/ HeldSend(v, b) \/ HeldPipe(v, b)'
                     \/ HeldLeft(v, b)' \/ HeldOver(v, b)
    /\ w = Unmade => v = Unmade

(* What a step does that takes x out of a queue.                           *)
LEMMA Dequeued ==
  ASSUME IInv, NEW n \in Node, NEW p \in Node, NEW x, Dequeue(n, p, x),
         NEW b \in Body, NEW w, Sole(w, b)
  PROVE  IF x = b THEN Leaves(w, b) ELSE Shifts(w, b)
<1> USE DEF SoleObject, SoleSend, SolePipe, SoleLeft, SoleOver,
            HeldObject, HeldSend, HeldPipe, HeldLeft, HeldOver, Leaves, Shifts
<1>0. ASSUME NEW s, NEW S, s \in Seq(S), s # <<>>
      PROVE  /\ Len(s) \in Nat \ {0}
             /\ Len(Tail(s)) = Len(s) - 1
             /\ Head(s) = s[1]
             /\ \A i \in 1..Len(s) - 1 : Tail(s)[i] = s[i + 1]
  BY <1>0
<1>1. ASSUME NEW l \in Node \X Node, pipe[l] # <<>>, x = Head(pipe[l]),
             pipe' = [pipe EXCEPT ![l] = Tail(@)], left' = left
      PROVE  IF x = b THEN Leaves(w, b) ELSE Shifts(w, b)
  <2>1. PICK e \in Nat \ {0} : e = Len(pipe[l])
    BY <1>0, <1>1 DEF IInv
  <2>2. /\ \A k \in Node \X Node : k # l => pipe'[k] = pipe[k]
        /\ Len(pipe'[l]) = e - 1
        /\ \A i \in 1..e - 1 : pipe'[l][i] = pipe[l][i + 1]
        /\ x = pipe[l][1]
    <3>1. pipe[l] \in Seq(Body) /\ pipe'[l] = Tail(pipe[l])
      BY <1>1 DEF IInv
    <3> QED
      BY <1>0, <1>1, <2>1, <3>1 DEF IInv
  <2>3. CASE x = b
    <3>1. w = AtPipe(l, 1)
      <4>1. 1 \in 1..Len(pipe[l]) /\ pipe[l][1] = b
        BY <2>1, <2>2, <2>3
      <4> QED
        BY <4>1 DEF Sole
    <3>2. /\ \A k \in Node \X Node : \A j \in 1..Len(pipe[k]) :
                  pipe[k][j] = b => k = l /\ j = 1
          /\ NoObject(b) /\ NoSend(b) /\ NoLeft(b) /\ b \notin over
      BY <3>1, Elsewhere
    <3>3. ASSUME NEW k \in Node \X Node, NEW i \in 1..Len(pipe'[k])
          PROVE  pipe'[k][i] # b
      <4>1. CASE k # l
        BY <2>2, <3>2, <4>1
      <4>2. CASE k = l
        <5>1. i \in 1..e - 1 /\ i + 1 \in 1..e /\ i + 1 # 1
          BY <2>1, <2>2, <4>2
        <5> QED
          BY <2>1, <2>2, <3>2, <4>2, <5>1
      <4> QED
        BY <4>1, <4>2
    <3>4. NoPipe(b)' /\ NoLeft(b)'
      BY <1>1, <3>2, <3>3 DEF NoPipe, NoLeft
    <3> QED
      BY <2>3, <3>1, <3>2, <3>4, PlacesDiffer
  <2>4. CASE x # b /\ \E i \in 1..e : pipe[l][i] = b
    <3>1. PICK i \in 1..e : pipe[l][i] = b
      BY <2>4
    <3>2. i \in 2..e /\ i - 1 \in 1..e - 1
      BY <2>1, <2>2, <2>4, <3>1
    <3>3. w = AtPipe(l, i)
      BY <2>1, <3>1 DEF Sole
    <3>4. /\ \A k \in Node \X Node : \A j \in 1..Len(pipe[k]) :
                  pipe[k][j] = b => k = l /\ j = i
          /\ NoObject(b) /\ NoSend(b) /\ NoLeft(b) /\ b \notin over
      BY <3>3, Elsewhere
    <3>5. SolePipe(AtPipe(l, i - 1), b)'
      <4>1. ASSUME NEW k \in Node \X Node, NEW j \in 1..Len(pipe'[k]), pipe'[k][j] = b
            PROVE  k = l /\ j = i - 1
        <5>1. CASE k # l
          BY <2>2, <3>4, <4>1, <5>1
        <5>2. CASE k = l
          <6>1. j \in 1..e - 1 /\ j + 1 \in 1..e
            BY <2>1, <2>2, <5>2
          <6>2. j + 1 = i
            BY <2>1, <2>2, <3>4, <4>1, <5>2, <6>1
          <6> QED
            BY <5>2, <6>1, <6>2
        <5> QED
          BY <5>1, <5>2
      <4> QED
        BY <4>1
    <3>6. HeldPipe(AtPipe(l, i - 1), b)'
      <4>1. i - 1 \in 1..Len(pipe'[l]) /\ pipe'[l][i - 1] = b
        BY <2>2, <3>1, <3>2
      <4> QED
        BY <4>1
    <3> HIDE DEF HeldPipe, SolePipe
    <3> QED
      BY <1>1, <2>4, <3>3, <3>4, <3>5, <3>6, PlacesDiffer DEF NoObject, NoSend, NoLeft
  <2>5. CASE x # b /\ ~ \E i \in 1..e : pipe[l][i] = b
    <3>1. ASSUME NEW i \in 1..Len(pipe'[l]) PROVE pipe'[l][i] # b
      <4>1. i \in 1..e - 1 /\ i + 1 \in 1..e
        BY <2>1, <2>2
      <4> QED
        BY <2>2, <2>5, <4>1
    <3>2. SolePipe(w, b)'
      BY <2>2, <3>1 DEF Sole
    <3>3. HeldPipe(w, b) => HeldPipe(w, b)'
      BY <2>1, <2>2, <2>5
    <3> HIDE DEF HeldPipe, SolePipe
    <3> QED
      BY <1>1, <2>5, <3>2, <3>3 DEF Sole, Held
  <2> QED
    BY <2>3, <2>4, <2>5
<1>2. ASSUME left[n] # <<>>, Head(left[n]) = [target |-> p, body |-> x],
             left' = [left EXCEPT ![n] = Tail(@)], pipe' = pipe
      PROVE  IF x = b THEN Leaves(w, b) ELSE Shifts(w, b)
  <2>1. PICK e \in Nat \ {0} : e = Len(left[n])
    BY <1>0, <1>2 DEF IInv
  <2>2. /\ \A m \in Node : m # n => left'[m] = left[m]
        /\ Len(left'[n]) = e - 1
        /\ \A i \in 1..e - 1 : left'[n][i] = left[n][i + 1]
        /\ x = left[n][1].body
    <3>1. left[n] \in Seq(Whole) /\ left'[n] = Tail(left[n])
      BY <1>2 DEF IInv
    <3>2. Head(left[n]) = left[n][1]
      BY <1>0, <1>2, <3>1
    <3>3. x = left[n][1].body
      BY <1>2, <3>2
    <3> QED
      BY <1>0, <1>2, <2>1, <3>1, <3>3 DEF IInv
  <2>3. CASE x = b
    <3>1. w = AtLeft(n, 1)
      <4>1. 1 \in 1..Len(left[n]) /\ left[n][1].body = b
        BY <2>1, <2>2, <2>3
      <4> QED
        BY <4>1 DEF Sole
    <3>2. /\ \A m \in Node : \A j \in 1..Len(left[m]) :
                  left[m][j].body = b => m = n /\ j = 1
          /\ NoObject(b) /\ NoSend(b) /\ NoPipe(b) /\ b \notin over
      BY <3>1, Elsewhere
    <3>3. ASSUME NEW m \in Node, NEW i \in 1..Len(left'[m])
          PROVE  left'[m][i].body # b
      <4>1. CASE m # n
        BY <2>2, <3>2, <4>1
      <4>2. CASE m = n
        <5>1. i \in 1..e - 1 /\ i + 1 \in 1..e /\ i + 1 # 1
          BY <2>1, <2>2, <4>2
        <5> QED
          BY <2>1, <2>2, <3>2, <4>2, <5>1
      <4> QED
        BY <4>1, <4>2
    <3>4. NoPipe(b)' /\ NoLeft(b)'
      BY <1>2, <3>2, <3>3 DEF NoPipe, NoLeft
    <3> QED
      BY <2>3, <3>1, <3>2, <3>4, PlacesDiffer
  <2>4. CASE x # b /\ \E i \in 1..e : left[n][i].body = b
    <3>1. PICK i \in 1..e : left[n][i].body = b
      BY <2>4
    <3>2. i \in 2..e /\ i - 1 \in 1..e - 1
      BY <2>1, <2>2, <2>4, <3>1
    <3>3. w = AtLeft(n, i)
      BY <2>1, <3>1 DEF Sole
    <3>4. /\ \A m \in Node : \A j \in 1..Len(left[m]) :
                  left[m][j].body = b => m = n /\ j = i
          /\ NoObject(b) /\ NoSend(b) /\ NoPipe(b) /\ b \notin over
      BY <3>3, Elsewhere
    <3>5. SoleLeft(AtLeft(n, i - 1), b)'
      <4>1. ASSUME NEW m \in Node, NEW j \in 1..Len(left'[m]), left'[m][j].body = b
            PROVE  m = n /\ j = i - 1
        <5>1. CASE m # n
          BY <2>2, <3>4, <4>1, <5>1
        <5>2. CASE m = n
          <6>1. j \in 1..e - 1 /\ j + 1 \in 1..e
            BY <2>1, <2>2, <5>2
          <6>2. j + 1 = i
            BY <2>1, <2>2, <3>4, <4>1, <5>2, <6>1
          <6> QED
            BY <5>2, <6>1, <6>2
        <5> QED
          BY <5>1, <5>2
      <4> QED
        BY <4>1
    <3>6. HeldLeft(AtLeft(n, i - 1), b)'
      <4>1. i - 1 \in 1..Len(left'[n]) /\ left'[n][i - 1].body = b
        BY <2>2, <3>1, <3>2
      <4> QED
        BY <4>1
    <3> HIDE DEF HeldLeft, SoleLeft
    <3> QED
      BY <1>2, <2>4, <3>3, <3>4, <3>5, <3>6, PlacesDiffer DEF NoObject, NoSend, NoPipe
  <2>5. CASE x # b /\ ~ \E i \in 1..e : left[n][i].body = b
    <3>1. ASSUME NEW i \in 1..Len(left'[n]) PROVE left'[n][i].body # b
      <4>1. i \in 1..e - 1 /\ i + 1 \in 1..e
        BY <2>1, <2>2
      <4> QED
        BY <2>2, <2>5, <4>1
    <3>2. SoleLeft(w, b)'
      BY <2>2, <3>1 DEF Sole
    <3>3. HeldLeft(w, b) => HeldLeft(w, b)'
      BY <2>1, <2>2, <2>5
    <3> HIDE DEF HeldLeft, SoleLeft
    <3> QED
      BY <1>2, <2>5, <3>2, <3>3 DEF Sole, Held
  <2> QED
    BY <2>3, <2>4, <2>5
<1>3. <<p, n>> \in Node \X Node
  OBVIOUS
<1> QED
  BY <1>1, <1>2, <1>3 DEF Dequeue

LEMMA RecvMoves ==
  ASSUME IInv, NEW n \in Node, Recv(n), NEW b \in Body, NEW w, Sole(w, b)
  PROVE  \E v : Moves(w, v, b)
<1> USE DEF IInv, SoleObject, SoleSend, SolePipe, SoleLeft, SoleOver,
            HeldObject, HeldSend, HeldPipe, HeldLeft, HeldOver
<1>1. PICK p \in Node, x \in Body \union {NoBody} :
        /\ Dequeue(n, p, x)
        /\ IF p \in Foreign
           THEN Destroy({x}) /\ UNCHANGED object
           ELSE /\ object' = [object EXCEPT ![n] = [target |-> p, body |-> x]]
                /\ Destroy({object[n].body})
  BY DEF Recv
<1>2. sending' = sending /\ b # NoBody
  BY DEF Recv, Body, NoBody
<1>3. IF x = b THEN Leaves(w, b) ELSE Shifts(w, b)
  BY <1>1, Dequeued
<1>4. CASE x = b /\ p \in Foreign
  <2>1. object' = object /\ b \in over'
    BY <1>1, <1>2, <1>4 DEF Destroy
  <2>2. NoPipe(b)' /\ NoLeft(b)' /\ NoObject(b) /\ NoSend(b) /\ w # Unmade
    BY <1>3, <1>4 DEF Leaves
  <2>3. Sole(Over, b)'
    BY <1>2, <2>1, <2>2 DEF Sole, NoPipe, NoLeft, NoObject, NoSend
  <2>4. Held(Over, b)'
    BY <2>1 DEF Held
  <2> QED
    BY <2>2, <2>3, <2>4 DEF Moves
<1>5. CASE x = b /\ p \notin Foreign
  <2>1. /\ object' = [object EXCEPT ![n] = [target |-> p, body |-> x]]
        /\ over' = over \union ({object[n].body} \ {NoBody})
    BY <1>1, <1>5 DEF Destroy
  <2>2. /\ NoPipe(b)' /\ NoLeft(b)' /\ NoObject(b) /\ NoSend(b)
        /\ b \notin over /\ w # Unmade
    BY <1>3, <1>5 DEF Leaves
  <2>3. b \notin over'
    BY <2>1, <2>2 DEF NoObject
  <2>4. Sole(AtObject(n), b)'
    BY <1>2, <2>1, <2>2, <2>3 DEF Sole, NoPipe, NoLeft, NoObject, NoSend
  <2>5. Held(AtObject(n), b)'
    BY <1>5, <2>1 DEF Held
  <2> QED
    BY <2>2, <2>4, <2>5 DEF Moves
<1>6. CASE x # b
  <2>1. PICK v :
          /\ SoleObject(v, b) /\ SoleSend(v, b) /\ SolePipe(v, b)' /\ SoleLeft(v, b)'
          /\ SoleOver(v, b)
          /\ Held(w, b) => \/ HeldObject(v, b) \/ HeldSend(v, b) \/ HeldPipe(v, b)'
                           \/ HeldLeft(v, b)' \/ HeldOver(v, b)
          /\ w = Unmade => v = Unmade
    BY <1>3, <1>6 DEF Shifts
  <2>2. CASE p \notin Foreign /\ object[n].body = b
    <3>1. /\ object' = [object EXCEPT ![n] = [target |-> p, body |-> x]]
          /\ b \in over'
      BY <1>1, <1>2, <2>2 DEF Destroy
    <3>2. v = AtObject(n)
      BY <2>1, <2>2
    <3>3. /\ \A m \in Node : object[m].body = b => m = n
          /\ NoPipe(b)' /\ NoLeft(b)' /\ NoSend(b)
      BY <2>1, <3>2, PlacesDiffer DEF NoPipe, NoLeft, NoSend
    <3>4. Sole(Over, b)'
      BY <1>2, <1>6, <3>1, <3>3 DEF Sole, NoPipe, NoLeft, NoSend
    <3>5. Held(Over, b)'
      BY <3>1 DEF Held
    <3> QED
      BY <2>1, <3>2, <3>4, <3>5, PlacesDiffer DEF Moves
  <2>3. CASE p \in Foreign \/ object[n].body # b
    <3>1. /\ \A m \in Node : object'[m].body = b <=> object[m].body = b
          /\ b \in over' <=> b \in over
      <4>1. CASE p \in Foreign
        BY <1>1, <1>6, <4>1 DEF Destroy
      <4>2. CASE p \notin Foreign
        <5>1. /\ object' = [object EXCEPT ![n] = [target |-> p, body |-> x]]
              /\ over' = over \union ({object[n].body} \ {NoBody})
              /\ object[n].body # b
          BY <1>1, <2>3, <4>2 DEF Destroy
        <5>2. object'[n].body = x /\ \A m \in Node : m # n => object'[m] = object[m]
          BY <5>1
        <5> QED
          BY <1>6, <5>1, <5>2
      <4> QED
        BY <4>1, <4>2
    <3>2. SoleObject(v, b)' /\ SoleSend(v, b)' /\ SoleOver(v, b)'
      BY <1>2, <2>1, <3>1
    <3>3. /\ HeldObject(v, b) => HeldObject(v, b)'
          /\ HeldSend(v, b) => HeldSend(v, b)'
          /\ HeldOver(v, b) => HeldOver(v, b)'
      BY <1>2, <3>1
    <3> HIDE DEF SoleObject, SoleSend, SolePipe, SoleLeft, SoleOver,
                 HeldObject, HeldSend, HeldPipe, HeldLeft, HeldOver
    <3> QED
      BY <2>1, <3>2, <3>3 DEF Sole, Held, Moves
  <2> QED
    BY <2>2, <2>3
<1> QED
  BY <1>4, <1>5, <1>6

(***************************************************************************)
(* The link of a and b is cut: i of the messages to b have arrived, the    *)
(* others are over, and so have j of those to a.                           *)
(***************************************************************************)
Gains(n, s, i) ==
  /\ Len(left'[n]) = Len(left[n]) + i
  /\ \A k \in 1..Len(left[n]) : left'[n][k] = left[n][k]
  /\ \A k \in 1..i : left'[n][Len(left[n]) + k].body = s[k]
Cutting(a, b, i, j) ==
  /\ a \in Node /\ b \in Node /\ a # b
  /\ i \in 0..Len(pipe[<<a, b>>]) /\ j \in 0..Len(pipe[<<b, a>>])
  /\ \A l \in Node \X Node : pipe'[l] = IF l \in {<<a, b>>, <<b, a>>} THEN <<>> ELSE pipe[l]
  /\ Gains(b, pipe[<<a, b>>], i) /\ Gains(a, pipe[<<b, a>>], j)
  /\ \A n \in Node \ {a, b} : left'[n] = left[n]
  /\ \A c \in Body :
       c \in over' <=> \/ c \in over
                       \/ \E k \in i+1..Len(pipe[<<a, b>>]) : pipe[<<a, b>>][k] = c
                       \/ \E k \in j+1..Len(pipe[<<b, a>>]) : pipe[<<b, a>>][k] = c
  /\ object' = object /\ sending' = sending

LEMMA CutIsCutting ==
  ASSUME IInv, NEW a \in Node, NEW b \in Node, a # b, Cut(a, b)
  PROVE  \E i, j : Cutting(a, b, i, j)
<1> DEFINE s == pipe[<<a, b>>]
           t == pipe[<<b, a>>]
<1>1. s \in Seq(Body) /\ t \in Seq(Body)
  BY DEF IInv
<1>2. PICK i \in 0..Len(s), j \in 0..Len(t) :
        /\ left' = [n \in Node |->
             left[n] \o (IF n = b THEN From(a, SubSeq(s, 1, i))
                         ELSE IF n = a THEN From(b, SubSeq(t, 1, j)) ELSE <<>>)]
        /\ over' = over \union (({s[k] : k \in i+1..Len(s)} \union {t[k] : k \in j+1..Len(t)})
                                  \ {NoBody})
  BY DEF Cut, Destroy
<1>3. ASSUME NEW u \in Seq(Body), NEW k \in 0..Len(u), NEW n \in Node, NEW m \in Node,
             left'[m] = left[m] \o From(n, SubSeq(u, 1, k))
      PROVE  Gains(m, u, k)
  <2>1. SubSeq(u, 1, k) \in Seq(Body) /\ Len(SubSeq(u, 1, k)) = k
        /\ \A h \in 1..k : SubSeq(u, 1, k)[h] = u[h]
    OBVIOUS
  <2>2. ASSUME NEW v \in Seq(Body)
        PROVE  /\ From(n, v) \in Seq(Whole)
               /\ Len(From(n, v)) = Len(v)
               /\ \A h \in 1..Len(v) : From(n, v)[h].body = v[h]
    <3>1. \A h \in 1..Len(v) : [target |-> n, body |-> v[h]] \in Whole
      BY DEF Whole
    <3> QED
      BY <3>1 DEF From
  <2>3. PICK f : f = From(n, SubSeq(u, 1, k))
    OBVIOUS
  <2>4. f \in Seq(Whole) /\ Len(f) = k /\ \A h \in 1..k : f[h].body = u[h]
    BY <2>1, <2>2, <2>3
  <2>5. left[m] \in Seq(Whole)
    BY DEF IInv
  <2>6. /\ Len(left'[m]) = Len(left[m]) + Len(f)
        /\ \A h \in 1..Len(left[m]) : left'[m][h] = left[m][h]
        /\ \A h \in 1..Len(f) : left'[m][Len(left[m]) + h] = f[h]
    <3>1. ASSUME NEW x \in Seq(Whole), NEW y \in Seq(Whole)
          PROVE  /\ Len(x \o y) = Len(x) + Len(y)
                 /\ \A h \in 1..Len(x) : (x \o y)[h] = x[h]
                 /\ \A h \in 1..Len(y) : (x \o y)[Len(x) + h] = y[h]
      OBVIOUS
    <3>2. left'[m] = left[m] \o f
      BY <1>3, <2>3
    <3>3. f \in Seq(Whole)
      BY <2>4
    <3>4. /\ Len(left[m] \o f) = Len(left[m]) + Len(f)
          /\ \A h \in 1..Len(left[m]) : (left[m] \o f)[h] = left[m][h]
          /\ \A h \in 1..Len(f) : (left[m] \o f)[Len(left[m]) + h] = f[h]
      BY <2>5, <3>1, <3>3, Zenon
    <3> QED
      BY <3>2, <3>4, Zenon
  <2>7. /\ Len(left'[m]) = Len(left[m]) + k
        /\ \A h \in 1..k : left'[m][Len(left[m]) + h] = f[h] /\ f[h].body = u[h]
    BY <2>4, <2>6
  <2>8. \A h \in 1..k : left'[m][Len(left[m]) + h].body = u[h]
    BY <2>7
  <2> QED
    BY <2>6, <2>7, <2>8 DEF Gains
<1>4. Gains(b, s, i) /\ Gains(a, t, j)
  <2>1. /\ left'[b] = left[b] \o From(a, SubSeq(s, 1, i))
        /\ left'[a] = left[a] \o From(b, SubSeq(t, 1, j))
    BY <1>2
  <2> QED
    BY <1>1, <1>3, <2>1
<1>5. \A n \in Node \ {a, b} : left'[n] = left[n]
  <2>1. \A v \in Seq(Whole) : v \o <<>> = v
    OBVIOUS
  <2>2. \A n \in Node \ {a, b} : left'[n] = left[n] \o <<>> /\ left[n] \in Seq(Whole)
    BY <1>2 DEF IInv
  <2> QED
    BY <2>1, <2>2
<1>6. \A l \in Node \X Node : pipe'[l] = IF l \in {<<a, b>>, <<b, a>>} THEN <<>> ELSE pipe[l]
  BY DEF Cut, IInv
<1>7. ASSUME NEW c \in Body
      PROVE  c \in over' <=> \/ c \in over
                             \/ \E k \in i+1..Len(s) : s[k] = c
                             \/ \E k \in j+1..Len(t) : t[k] = c
  <2>1. c # NoBody
    BY DEF Body, NoBody
  <2> QED
    BY <1>2, <2>1
<1>8. object' = object /\ sending' = sending
  BY DEF Cut
<1>9. Cutting(a, b, i, j)
  BY <1>4, <1>5, <1>6, <1>7, <1>8 DEF Cutting
<1> QED
  BY <1>9

LEMMA Gained ==
  ASSUME IInv, NEW n \in Node, NEW s, NEW i \in Nat, Gains(n, s, i), NEW h \in 1..Len(left'[n])
  PROVE  \/ h \in 1..Len(left[n]) /\ left'[n][h] = left[n][h]
         \/ \E k \in 1..i : h = Len(left[n]) + k /\ left'[n][h].body = s[k]
<1>1. Len(left[n]) \in Nat /\ Len(left'[n]) = Len(left[n]) + i
  BY DEF IInv, Gains
<1>2. CASE h \in 1..Len(left[n])
  BY <1>2 DEF Gains
<1>3. CASE h \notin 1..Len(left[n])
  <2>1. PICK k \in 1..i : h = Len(left[n]) + k
    <3>1. h - Len(left[n]) \in 1..i /\ h = Len(left[n]) + (h - Len(left[n]))
      BY <1>1, <1>3
    <3> QED
      BY <3>1
  <2>2. left'[n][Len(left[n]) + k].body = s[k]
    BY DEF Gains
  <2> QED
    BY <2>1, <2>2
<1> QED
  BY <1>2, <1>3

LEMMA CutMovesSent ==
  ASSUME IInv, NEW a, NEW b, NEW i, NEW j, Cutting(a, b, i, j),
         NEW c \in Body, NEW w, Sole(w, c),
         NEW k \in 1..Len(pipe[<<a, b>>]), pipe[<<a, b>>][k] = c
  PROVE  \E v : Moves(w, v, c)
<1> DEFINE s == pipe[<<a, b>>]
           t == pipe[<<b, a>>]
<1>1. /\ a \in Node /\ b \in Node /\ a # b
      /\ <<a, b>> \in Node \X Node /\ <<b, a>> \in Node \X Node /\ <<b, a>> # <<a, b>>
      /\ Len(s) \in Nat /\ Len(t) \in Nat /\ Len(left[b]) \in Nat
  BY DEF Cutting, IInv
<1>2. i \in 0..Len(s) /\ j \in 0..Len(t) /\ i \in Nat /\ j \in Nat
  BY <1>1 DEF Cutting
<1>3. w = AtPipe(<<a, b>>, k)
  BY <1>1 DEF Sole, SolePipe
<1>4. /\ \A l \in Node \X Node : \A h \in 1..Len(pipe[l]) : pipe[l][h] = c => l = <<a, b>> /\ h = k
      /\ NoObject(c) /\ NoSend(c) /\ NoLeft(c) /\ c \notin over
  BY <1>3, Elsewhere
<1>5. NoPipe(c)'
  <2> SUFFICES ASSUME NEW l \in Node \X Node, NEW h \in 1..Len(pipe'[l]) PROVE pipe'[l][h] # c
    BY DEF NoPipe
  <2>1. pipe'[l] = IF l \in {<<a, b>>, <<b, a>>} THEN <<>> ELSE pipe[l]
    BY DEF Cutting
  <2>2. CASE l \in {<<a, b>>, <<b, a>>}
    <3>1. Len(pipe'[l]) = 0
      BY <2>1, <2>2
    <3> QED
      BY <3>1
  <2>3. CASE l \notin {<<a, b>>, <<b, a>>}
    BY <1>4, <2>1, <2>3
  <2> QED
    BY <2>2, <2>3
<1>6. NoObject(c)' /\ NoSend(c)'
  BY <1>4 DEF NoObject, NoSend, Cutting
<1>7. ASSUME NEW n \in Node, NEW h \in 1..Len(left'[n]), left'[n][h].body = c
      PROVE  n = b /\ k \in 1..i /\ h = Len(left[b]) + k
  <2>1. ASSUME NEW g \in 1..j PROVE t[g] # c
    <3>1. g \in 1..Len(t)
      BY <1>1, <1>2
    <3> QED
      BY <1>1, <1>4, <3>1
  <2>2. ASSUME NEW g \in 1..i, s[g] = c PROVE g = k
    <3>1. g \in 1..Len(s)
      BY <1>1, <1>2
    <3> QED
      BY <1>1, <1>4, <2>2, <3>1
  <2>3. Gains(b, s, i) /\ Gains(a, t, j)
    BY DEF Cutting
  <2>a. ASSUME NEW u, NEW d \in Nat, Gains(n, u, d)
        PROVE  \E g \in 1..d : h = Len(left[n]) + g /\ u[g] = c
    <3>1. \/ h \in 1..Len(left[n]) /\ left'[n][h] = left[n][h]
          \/ \E g \in 1..d : h = Len(left[n]) + g /\ left'[n][h].body = u[g]
      BY <2>a, Gained
    <3> QED
      BY <1>4, <1>7, <3>1 DEF NoLeft
  <2>4. CASE n = b
    <3>1. PICK g \in 1..i : h = Len(left[n]) + g /\ s[g] = c
      BY <1>2, <2>a, <2>3, <2>4
    <3> QED
      BY <2>2, <2>4, <3>1
  <2>5. CASE n = a
    <3>1. PICK g \in 1..j : h = Len(left[n]) + g /\ t[g] = c
      BY <1>2, <2>a, <2>3, <2>5
    <3> QED
      BY <2>1, <3>1
  <2>6. CASE n \notin {a, b}
    <3>1. left'[n] = left[n]
      BY <2>6 DEF Cutting
    <3> QED
      BY <1>4, <1>7, <3>1 DEF NoLeft
  <2> QED
    BY <2>4, <2>5, <2>6
<1>8. c \in over' <=> k \in i+1..Len(s)
  <2>1. c \in over' <=> \/ c \in over
                        \/ \E h \in i+1..Len(s) : s[h] = c
                        \/ \E h \in j+1..Len(t) : t[h] = c
    BY DEF Cutting
  <2>2. ASSUME NEW h \in j+1..Len(t) PROVE t[h] # c
    <3>1. h \in 1..Len(t)
      BY <1>1, <1>2
    <3> QED
      BY <1>1, <1>4, <3>1
  <2>3. ASSUME NEW h \in i+1..Len(s), s[h] = c PROVE h = k
    <3>1. h \in 1..Len(s)
      BY <1>1, <1>2
    <3> QED
      BY <1>1, <1>4, <2>3, <3>1
  <2> QED
    BY <1>4, <2>1, <2>2, <2>3
<1>9. CASE k <= i
  <2>1. PICK e \in Nat : e = Len(left[b])
    BY <1>1
  <2>2. k \in 1..i /\ k \notin i+1..Len(s)
    BY <1>1, <1>2, <1>9
  <2>3. SoleLeft(AtLeft(b, e + k), c)'
    BY <1>7, <2>1 DEF SoleLeft
  <2>4. Sole(AtLeft(b, e + k), c)'
    BY <1>5, <1>6, <1>8, <2>2, <2>3
       DEF Sole, SoleObject, SoleSend, SolePipe, SoleOver, NoObject, NoSend, NoPipe
  <2>5. HeldLeft(AtLeft(b, e + k), c)'
    <3>1. Len(left'[b]) = e + i /\ left'[b][e + k].body = s[k]
      BY <2>1, <2>2 DEF Cutting, Gains
    <3>2. e + k \in 1..Len(left'[b])
      BY <1>2, <2>1, <2>2, <3>1
    <3> QED
      BY <1>1, <3>1, <3>2 DEF HeldLeft
  <2> QED
    BY <1>3, <2>4, <2>5, PlacesDiffer DEF Moves, Held
<1>10. CASE ~(k <= i)
  <2>1. k \notin 1..i /\ k \in i+1..Len(s)
    BY <1>1, <1>2, <1>10
  <2>2. SoleLeft(Over, c)'
    BY <1>7, <2>1 DEF SoleLeft
  <2>3. Sole(Over, c)'
    BY <1>5, <1>6, <2>2
       DEF Sole, SoleObject, SoleSend, SolePipe, SoleOver, NoObject, NoSend, NoPipe
  <2>4. Held(Over, c)'
    BY <1>8, <2>1 DEF Held, HeldOver
  <2> QED
    BY <1>3, <2>3, <2>4, PlacesDiffer DEF Moves
<1> QED
  BY <1>9, <1>10

LEMMA CutMoves ==
  ASSUME IInv, NEW a, NEW b, NEW i, NEW j, Cutting(a, b, i, j),
         NEW c \in Body, NEW w, Sole(w, c)
  PROVE  \E v : Moves(w, v, c)
<1>1. CASE \E k \in 1..Len(pipe[<<a, b>>]) : pipe[<<a, b>>][k] = c
  BY <1>1, CutMovesSent
<1>2. CASE \E k \in 1..Len(pipe[<<b, a>>]) : pipe[<<b, a>>][k] = c
  <2>1. Cutting(b, a, j, i)
    BY DEF Cutting
  <2> QED
    BY <1>2, <2>1, CutMovesSent
<1>3. CASE /\ ~ \E k \in 1..Len(pipe[<<a, b>>]) : pipe[<<a, b>>][k] = c
           /\ ~ \E k \in 1..Len(pipe[<<b, a>>]) : pipe[<<b, a>>][k] = c
  <2> DEFINE s == pipe[<<a, b>>]
             t == pipe[<<b, a>>]
  <2>1. /\ a \in Node /\ b \in Node
        /\ Len(s) \in Nat /\ Len(t) \in Nat
        /\ i \in 0..Len(s) /\ j \in 0..Len(t)
    BY DEF Cutting, IInv
  <2>2. /\ \A k \in 1..i : s[k] # c
        /\ \A k \in 1..j : t[k] # c
    <3>1. 1..i \subseteq 1..Len(s) /\ 1..j \subseteq 1..Len(t)
      BY <2>1
    <3> QED
      BY <1>3, <3>1
  <2>3. ASSUME NEW l \in Node \X Node, NEW h
        PROVE  h \in 1..Len(pipe'[l]) /\ pipe'[l][h] = c <=> h \in 1..Len(pipe[l]) /\ pipe[l][h] = c
    <3>1. pipe'[l] = IF l \in {<<a, b>>, <<b, a>>} THEN <<>> ELSE pipe[l]
      BY DEF Cutting
    <3>2. CASE l \in {<<a, b>>, <<b, a>>}
      <4>1. Len(pipe'[l]) = 0
        BY <3>1, <3>2
      <4> QED
        BY <1>3, <3>2, <4>1
    <3> QED
      BY <3>1, <3>2
  <2>4. ASSUME NEW n \in Node, NEW h
        PROVE  h \in 1..Len(left'[n]) /\ left'[n][h].body = c
                 <=> h \in 1..Len(left[n]) /\ left[n][h].body = c
    <3>1. ASSUME NEW u, NEW d \in Nat, Gains(n, u, d), \A k \in 1..d : u[k] # c
          PROVE  h \in 1..Len(left'[n]) /\ left'[n][h].body = c
                   <=> h \in 1..Len(left[n]) /\ left[n][h].body = c
      <4>0. ASSUME NEW g \in 1..Len(left'[n])
            PROVE  \/ g \in 1..Len(left[n]) /\ left'[n][g] = left[n][g]
                   \/ \E k \in 1..d : g = Len(left[n]) + k /\ left'[n][g].body = u[k]
        BY <3>1, Gained
      <4>1. ASSUME h \in 1..Len(left'[n]), left'[n][h].body = c
            PROVE  h \in 1..Len(left[n]) /\ left[n][h].body = c
        BY <3>1, <4>0, <4>1
      <4>2. ASSUME h \in 1..Len(left[n]), left[n][h].body = c
            PROVE  h \in 1..Len(left'[n]) /\ left'[n][h].body = c
        <5>1. Len(left[n]) \in Nat /\ Len(left'[n]) = Len(left[n]) + d
          BY <3>1 DEF IInv, Gains
        <5>2. h \in 1..Len(left'[n])
          BY <3>1, <4>2, <5>1
        <5> QED
          BY <3>1, <4>2, <5>2 DEF Gains
      <4> QED
        BY <4>1, <4>2
    <3>2. Gains(b, s, i) /\ Gains(a, t, j) /\ i \in Nat /\ j \in Nat
      BY <2>1 DEF Cutting
    <3>3. CASE n \in {a, b}
      BY <2>2, <3>1, <3>2, <3>3
    <3>4. CASE n \notin {a, b}
      <4>1. left'[n] = left[n]
        BY <3>4 DEF Cutting
      <4> QED
        BY <4>1
    <3> QED
      BY <3>3, <3>4
  <2>5. c \in over' <=> c \in over
    <3>1. c \in over' <=> \/ c \in over
                          \/ \E h \in i+1..Len(s) : s[h] = c
                          \/ \E h \in j+1..Len(t) : t[h] = c
      BY DEF Cutting
    <3>2. i+1..Len(s) \subseteq 1..Len(s) /\ j+1..Len(t) \subseteq 1..Len(t)
      BY <2>1
    <3> QED
      BY <1>3, <3>1, <3>2
  <2>6. object' = object /\ sending' = sending
    BY DEF Cutting
  <2>7. Sole(w, c)'
    BY <2>3, <2>4, <2>5, <2>6 DEF Sole, SoleObject, SoleSend, SolePipe, SoleLeft, SoleOver
  <2>8. Held(w, c) => Held(w, c)'
    <3>1. HeldPipe(w, c) => HeldPipe(w, c)'
      BY <2>3 DEF HeldPipe
    <3>2. HeldLeft(w, c) => HeldLeft(w, c)'
      BY <2>4 DEF HeldLeft
    <3>3. HeldObject(w, c) \/ HeldSend(w, c) \/ HeldOver(w, c) => Held(w, c)'
      BY <2>5, <2>6 DEF Held, HeldObject, HeldSend, HeldOver
    <3> QED
      BY <3>1, <3>2, <3>3 DEF Held
  <2> QED
    BY <2>7, <2>8 DEF Moves
<1> QED
  BY <1>1, <1>2, <1>3

LEMMA NextTracked == IInv /\ TrackedInv /\ [Next]_vars => TrackedInv'
<1> SUFFICES ASSUME IInv, TrackedInv, [Next]_vars, NEW b \in Body PROVE Tracked(b)'
  BY RouterAssumption DEF TrackedInv, Body
<1>1. PICK w : Sole(w, b) /\ (IF b <= made THEN Held(w, b) ELSE w = Unmade)
  BY DEF TrackedInv, Tracked
<1>2. ASSUME NEW v, Moves(w, v, b), made' = made PROVE Tracked(b)'
  BY <1>1, <1>2 DEF Moves, Tracked
<1>3. ASSUME UNCHANGED messageVars PROVE Tracked(b)'
  <2>1. /\ object' = object /\ sending' = sending /\ pipe' = pipe /\ left' = left
        /\ made' = made /\ over' = over
    BY <1>3 DEF messageVars
  <2>2. Sole(w, b)' <=> Sole(w, b)
    BY <2>1 DEF Sole, SoleObject, SoleSend, SolePipe, SoleLeft, SoleOver
  <2>3. Held(w, b)' <=> Held(w, b)
    BY <2>1 DEF Held, HeldObject, HeldSend, HeldPipe, HeldLeft, HeldOver
  <2> QED
    BY <1>1, <2>1, <2>2, <2>3 DEF Tracked
<1>4. ASSUME NEW n \in Node, Bind(n) PROVE Tracked(b)'
  BY <1>3, <1>4 DEF Bind
<1>5. ASSUME NEW n \in Node, StartSend(n) PROVE Tracked(b)'
  BY <1>1, <1>2, <1>5, StartSendMoves DEF StartSend
<1>6. ASSUME NEW n \in Node, SendQueued(n) PROVE Tracked(b)'
  BY <1>1, <1>2, <1>6, SendQueuedMoves DEF SendQueued
<1>7. ASSUME NEW n \in Node, SendThrows(n) \/ SendDropped(n) PROVE Tracked(b)'
  BY <1>1, <1>2, <1>7, SendOverMoves DEF SendThrows, SendDropped
<1>8. ASSUME NEW n \in Node, Recv(n) PROVE Tracked(b)'
  BY <1>1, <1>2, <1>8, RecvMoves DEF Recv
<1>9. ASSUME NEW n \in Node, NEW p \in Node, Connect(n, p) \/ Identified(n, p)
      PROVE  Tracked(b)'
  BY <1>3, <1>9 DEF Connect, Identified
<1>10. ASSUME NEW n \in Node, NEW p \in Node, n # p, Cut(n, p) PROVE Tracked(b)'
  <2>1. PICK i, j : Cutting(n, p, i, j)
    BY <1>10, CutIsCutting
  <2>2. PICK v : Moves(w, v, b)
    BY <1>1, <2>1, CutMoves
  <2>3. made' = made
    BY <1>10 DEF Cut
  <2> QED
    BY <1>2, <2>2, <2>3
<1>11. ASSUME NEW n \in Node, NEW p \in Node, Make(n, p) PROVE Tracked(b)'
  BY <1>11, MakeTracks DEF TrackedInv
<1>12. CASE UNCHANGED vars
  BY <1>3, <1>12 DEF vars, messageVars
<1> QED
  BY <1>4, <1>5, <1>6, <1>7, <1>8, <1>9, <1>10, <1>11, <1>12
     DEF Next, SendReturns, LinkLost, Disconnect

(***************************************************************************)
(* A message is in one place, from when it is made to when it is destroyed *)
(* (RouterSocket::send moves the parts out of the RouterMessage, recv into *)
(* one, router_socket.cpp:38-91): a refused or dropped send leaves no copy *)
(* that could be sent again, and nothing is received twice, whatever links *)
(* are lost meanwhile.                                                     *)
(***************************************************************************)
THEOREM EachInOnePlace == Spec => []Accounted
<1>1. IInv /\ TrackedInv => Accounted
  <2> SUFFICES ASSUME IInv, TrackedInv, NEW b \in Body
               PROVE  IF b <= made THEN \E w \in Where(b) : Where(b) = {w} ELSE Where(b) = {}
    BY DEF Accounted
  <2>1. PICK w : Sole(w, b) /\ (IF b <= made THEN Held(w, b) ELSE w = Unmade)
    BY DEF TrackedInv, Tracked
  <2> QED
    BY <2>1, WhereIs
<1> QED
  BY InductiveInv, InitTracked, NextTracked, <1>1, PTL DEF Spec

=============================================================================
