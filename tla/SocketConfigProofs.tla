------------------------- MODULE SocketConfigProofs -------------------------
(***************************************************************************)
(* Proofs about SocketConfig: whatever options are given, in a run of the  *)
(* constructor that logs nothing every one of them takes effect.  The      *)
(* order and the number of the options do not matter to the proof.         *)
(***************************************************************************)
EXTENDS SocketConfig, SequenceTheorems, TLAPS

(* Every option has an assignment, and the assignments done are right.     *)
Done == {Order[i] : i \in 1..(next - 1)}
IInv ==
  /\ TypeOK
  /\ \A o \in Options : value[o] = IF o \in Done THEN Parsed(o) ELSE "default"
  /\ outcome = "complete" => next = Len(Order) + 1

LEMMA OrderIsOfOptions ==
  /\ Len(Order) \in Nat
  /\ \A i \in 1..Len(Order) : Order[i] \in Options
  /\ \A o \in Options : \E i \in 1..Len(Order) : Order[i] = o
<1> DEFINE Names ==
      {"immediate", "router_handover", "router_mandatory",
       "tcp_keepalive", "tcp_keepalive_count", "tcp_keepalive_interval",
       "backlog", "linger", "send_buffer_size", "receive_buffer_size",
       "send_high_watermark", "receive_high_watermark"}
<1>1. Flags \in Seq(Names) /\ Len(Flags) = 3
  BY DEF Flags
<1>2. Ints \in Seq(Names) /\ Len(Ints) = 9
  BY DEF Ints
<1> HIDE DEF Names
<1>a. /\ Len(Order) = Len(Flags) + Len(Ints)
      /\ \A i \in 1..(Len(Flags) + Len(Ints)) :
           Order[i] = IF i <= Len(Flags) THEN Flags[i] ELSE Ints[i - Len(Flags)]
  <2>1. ASSUME NEW s \in Seq(Names), NEW t \in Seq(Names)
        PROVE  /\ Len(s \o t) = Len(s) + Len(t)
               /\ \A i \in 1..(Len(s) + Len(t)) :
                    (s \o t)[i] = IF i <= Len(s) THEN s[i] ELSE t[i - Len(s)]
    BY ConcatProperties
  <2> QED
    BY <1>1, <1>2, <2>1, Zenon DEF Order
<1>b. /\ \A i \in 1..Len(Flags) : Order[i] = Flags[i]
      /\ \A i \in 1..Len(Ints) : Order[Len(Flags) + i] = Ints[i]
  BY <1>1, <1>2, <1>a
<1>3. ASSUME NEW i \in 1..Len(Order) PROVE Order[i] \in Options
  <2>1. CASE i \in 1..Len(Flags)
    BY <1>1, <1>2, <1>b, <2>1 DEF Options, Listed
  <2>2. CASE i \notin 1..Len(Flags)
    <3>1. i - Len(Flags) \in 1..Len(Ints) /\ Order[i] = Ints[i - Len(Flags)]
      BY <1>1, <1>2, <1>a, <1>b, <2>2
    <3> QED
      BY <3>1 DEF Options, Listed
  <2> QED
    BY <2>1, <2>2
<1>4. ASSUME NEW o \in Options PROVE \E i \in 1..Len(Order) : Order[i] = o
  <2>1. CASE o \in Listed(Flags)
    <3>1. PICK i \in 1..Len(Flags) : Flags[i] = o
      BY <2>1 DEF Listed
    <3>2. i \in 1..Len(Order) /\ Order[i] = o
      BY <1>1, <1>2, <1>a, <1>b, <3>1
    <3> QED
      BY <3>2
  <2>2. CASE o \in Listed(Ints)
    <3>1. PICK i \in 1..Len(Ints) : Ints[i] = o
      BY <2>2 DEF Listed
    <3>2. Len(Flags) + i \in 1..Len(Order) /\ Order[Len(Flags) + i] = o
      BY <1>1, <1>2, <1>a, <1>b, <3>1
    <3> QED
      BY <3>2
  <2> QED
    BY <2>1, <2>2 DEF Options
<1> QED
  BY <1>1, <1>2, <1>a, <1>3, <1>4

LEMMA InitIInv == Init => IInv
<1> SUFFICES ASSUME Init PROVE IInv
  OBVIOUS
<1>1. TypeOK
  BY OrderIsOfOptions DEF Init, TypeOK
<1>2. Done = {}
  BY DEF Init, Done
<1> QED
  BY <1>1, <1>2 DEF Init, IInv

LEMMA NextIInv == IInv /\ [Next]_vars => IInv'
<1> SUFFICES ASSUME IInv, [Next]_vars PROVE IInv'
  OBVIOUS
<1> USE OrderIsOfOptions
<1>1. CASE Catch
  <2>1. UNCHANGED <<given, accepted, value, next>> /\ outcome' = "logged"
    BY <1>1 DEF Catch
  <2> QED
    BY <2>1 DEF IInv, TypeOK, Done, Parsed
<1>2. CASE Assign
  <2> DEFINE a == Order[next]
  <2>1. /\ next \in 1..Len(Order) /\ a \in Options /\ Parsed(a) # "none"
        /\ value' = [value EXCEPT ![a] = Parsed(a)] /\ next' = next + 1
        /\ UNCHANGED <<given, accepted, outcome>> /\ outcome = "running"
    BY <1>2 DEF Assign, IInv, TypeOK
  <2>2. Done' = Done \union {a}
    <3>1. 1..(next' - 1) = 1..(next - 1) \union {next}
      BY <2>1
    <3> QED
      BY <2>1, <3>1 DEF Done
  <2>3. Parsed(a) \in {"given", "false"}
    BY <2>1 DEF Parsed
  <2>4. TypeOK'
    BY <2>1, <2>3 DEF IInv, TypeOK
  <2>5. ASSUME NEW o \in Options
        PROVE  value'[o] = IF o \in Done' THEN Parsed(o)' ELSE "default"
    <3>1. Parsed(o)' = Parsed(o)
      BY <2>1 DEF Parsed
    <3> QED
      BY <2>1, <2>2, <3>1 DEF IInv, TypeOK
  <2> QED
    BY <2>1, <2>4, <2>5 DEF IInv
<1>3. CASE Return
  <2>1. /\ next = Len(Order) + 1 /\ outcome' = "complete"
        /\ UNCHANGED <<given, accepted, value, next>>
    BY <1>3 DEF Return, IInv, TypeOK
  <2> QED
    BY <2>1 DEF IInv, TypeOK, Done, Parsed
<1>4. CASE UNCHANGED vars
  BY <1>4 DEF vars, IInv, TypeOK, Done, Parsed
<1> QED
  BY <1>1, <1>2, <1>3, <1>4 DEF Next

LEMMA InductiveInv == Spec => []IInv
BY InitIInv, NextIInv, PTL DEF Spec

(***************************************************************************)
(* Every member holds its default, its own value or the false of a flag,   *)
(* and the assignments stay inside the list (router_socket.hpp:74-85).     *)
(***************************************************************************)
THEOREM TypeCorrect == Spec => []TypeOK
<1>1. IInv => TypeOK
  BY DEF IInv
<1> QED
  BY InductiveInv, <1>1, PTL

-----------------------------------------------------------------------------
(***************************************************************************)
(* Without a line in the log, every option that was given has its value.   *)
(***************************************************************************)
THEOREM LossesAreLogged == Spec => []LossIsLogged
<1>1. IInv => LossIsLogged
  <2> SUFFICES ASSUME IInv, outcome = "complete", NEW o \in given
               PROVE  value[o] = "given"
    BY DEF LossIsLogged
  <2>1. o \in Options /\ next - 1 = Len(Order)
    BY OrderIsOfOptions DEF IInv, TypeOK
  <2>2. o \in Done
    BY <2>1, OrderIsOfOptions DEF Done
  <2> QED
    BY <2>1, <2>2 DEF IInv, Parsed
<1> QED
  BY InductiveInv, <1>1, PTL

(***************************************************************************)
(* No member gets a value of an option that was not given, except that a   *)
(* flag which was not given becomes false.                                 *)
(***************************************************************************)
THEOREM NothingIsInvented == Spec => []NothingInvented
<1>1. IInv => NothingInvented
  <2> SUFFICES ASSUME IInv, NEW o \in Options \ given
               PROVE  value[o] = "default" \/ (value[o] = "false" /\ o \in Listed(Flags))
    BY DEF NothingInvented
  <2>1. value[o] = "default" \/ value[o] = Parsed(o)
    BY DEF IInv
  <2>2. value[o] # "none"
    BY DEF IInv, TypeOK
  <2> QED
    BY <2>1, <2>2 DEF Parsed
<1> QED
  BY InductiveInv, <1>1, PTL

=============================================================================
