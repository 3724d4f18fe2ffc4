----------------------------- MODULE ByteCalls ------------------------------
(***************************************************************************)
(* The vocabulary of calls on a byte buffer, shared by the ring buffer and *)
(* by the queue it implements: what can be written and what calls return.  *)
(***************************************************************************)
EXTENDS Integers, Sequences

CONSTANTS
  Byte,      (* the values of an unsigned char                             *)
  MaxWrite   (* longest argument of one write call: bounds the model       *)

IntWidths == {2, 4}                \* sizeof(int16_t), sizeof(int32_t)

(* The possible arguments of a write call.                                 *)
Chunks == UNION {[1..n -> Byte] : n \in 1..MaxWrite}

(* The first n elements of a sequence, and the rest.                       *)
Take(s, n) == SubSeq(s, 1, n)
Drop(s, n) == SubSeq(s, n + 1, Len(s))

(***************************************************************************)
(* The result of a call: its name, its argument, how it ended ("ok", or    *)
(* the exception it threw) and the bytes it returned.                      *)
(***************************************************************************)
Returns(call, arg, value) ==
  [call |-> call, arg |-> arg, outcome |-> "ok", value |-> value]
Throws(call, arg, exception) ==
  [call |-> call, arg |-> arg, outcome |-> exception, value |-> <<>>]

Exceptions == {"out_of_range", "runtime_error", "invalid_argument"}
Calls == {"new", "write", "pop", "peek", "clear", "clearCount", "read",
          "peekInt", "readInt"}
Results == [call : Calls, arg : Nat, outcome : Exceptions \union {"ok"},
            value : Seq(Byte)]

=============================================================================
