---------------------------- MODULE SocketConfig ----------------------------
(***************************************************************************)
(* Play::SocketConfig (router_socket.hpp:15-203): the constructor parses a *)
(* string of options and assigns the members one after the other.          *)
(*                                                                         *)
(* cxxopts is external.  As the code uses it: an option that is declared   *)
(* bool and was not given has the value false; one that is declared int    *)
(* and was not given has no value, and as<int>() throws.  parse() throws   *)
(* at a token it cannot accept, before anything is assigned.               *)
(***************************************************************************)
EXTENDS Naturals, Sequences

Flags == <<"immediate", "router_handover", "router_mandatory">>
Ints == <<"tcp_keepalive", "tcp_keepalive_count", "tcp_keepalive_interval",
          "backlog", "linger", "send_buffer_size", "receive_buffer_size",
          "send_high_watermark", "receive_high_watermark">>

Listed(s) == {s[i] : i \in 1..Len(s)}
Order == Flags \o Ints             \* the order of the assignments
Options == Listed(Flags) \union Listed(Ints)

VARIABLES
  given,     (* the options in the string                                  *)
  accepted,  (* parse() accepts every token of it                          *)
  value,     (* of each member: its default, the one given, or "false"     *)
  next,      (* the next assignment                                        *)
  outcome    (* of the constructor: "logged" when it caught an exception   *)

vars == <<given, accepted, value, next, outcome>>

Init ==
  /\ given \in SUBSET Options
  /\ accepted \in BOOLEAN
  /\ value = [o \in Options |-> "default"]
  /\ next = 1
  /\ outcome = "running"

(* What result[o] holds.                                                   *)
Parsed(o) ==
  IF o \in given THEN "given" ELSE IF o \in Listed(Flags) THEN "false" ELSE "none"

(* parse() or as<int>() throws; the exception is caught and logged.        *)
Catch ==
  /\ outcome = "running"
  /\ ~accepted \/ (next <= Len(Order) /\ Parsed(Order[next]) = "none")
  /\ outcome' = "logged"
  /\ UNCHANGED <<given, accepted, value, next>>

(* Mutants: as<int>() does not throw; a line copied with the wrong name.   *)
AssignUnchecked ==
  /\ outcome = "running"
  /\ accepted
  /\ next <= Len(Order)
  /\ value' = [value EXCEPT ![Order[next]] = Parsed(Order[next])]
  /\ next' = next + 1
  /\ UNCHANGED <<given, accepted, outcome>>
AssignCopied ==
  /\ outcome = "running"
  /\ accepted
  /\ next <= Len(Order)
  /\ Parsed(Order[next]) # "none"
  /\ value' = [value EXCEPT ![Order[next]] = Parsed(Order[IF next = 2 THEN 3 ELSE next])]
  /\ next' = next + 1
  /\ UNCHANGED <<given, accepted, outcome>>

Assign ==
  /\ outcome = "running"
  /\ accepted
  /\ next <= Len(Order)
  /\ Parsed(Order[next]) # "none"
  /\ value' = [value EXCEPT ![Order[next]] = Parsed(Order[next])]
  /\ next' = next + 1
  /\ UNCHANGED <<given, accepted, outcome>>

(* Mutant: the last member is forgotten.                                   *)
ReturnEarly ==
  /\ outcome = "running"
  /\ accepted
  /\ next >= Len(Order)
  /\ outcome' = "complete"
  /\ UNCHANGED <<given, accepted, value, next>>

Return ==
  /\ outcome = "running"
  /\ next > Len(Order)
  /\ outcome' = "complete"
  /\ UNCHANGED <<given, accepted, value, next>>

Next == Catch \/ Assign \/ Return

Spec == Init /\ [][Next]_vars

-----------------------------------------------------------------------------
TypeOK ==
  /\ given \subseteq Options
  /\ accepted \in BOOLEAN
  /\ value \in [Options -> {"default", "given", "false"}]
  /\ next \in 1..Len(Order) + 1
  /\ outcome \in {"running", "logged", "complete"}

(***************************************************************************)
(* Whoever runs the server can see in the log that an option of the string *)
(* has no effect: the member keeps its default only behind the line of the *)
(* catch block (router_socket.hpp:89).                                     *)
(***************************************************************************)
LossIsLogged ==
  outcome = "complete" => \A o \in given : value[o] = "given"

(***************************************************************************)
(* A value is never of another option: what is not given is at its default *)
(* or, a flag that was not given, false - also when its default is true.   *)
(***************************************************************************)
NothingInvented ==
  \A o \in Options \ given :
    value[o] = "default" \/ (value[o] = "false" /\ o \in Listed(Flags))

(* "set the parsed values to the member variables" (router_socket.hpp:73): *)
(* an option that parse() has accepted takes effect.                       *)
AcceptedIsSet ==
  accepted /\ outcome # "running" => \A o \in given : value[o] = "given"

=============================================================================
