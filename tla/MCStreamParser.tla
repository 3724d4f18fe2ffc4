--------------------------- MODULE MCStreamParser ---------------------------
(***************************************************************************)
(* The parser on streams of a few messages.  A byte has four values, so a  *)
(* message has 11 to 26 bytes; the buffer holds 16, 32 and at most 64.     *)
(***************************************************************************)
EXTENDS StreamParser

Msg(id, body) ==
  [serviceId |-> id % 16, msgId |-> 27 + id, msgSeq |-> 15 - (id % 16),
   stageIndex |-> id % 4, body |-> body]

Bytes(n) == [i \in 1..n |-> i % 3]

(* Bodies that are empty, short, and fill the buffer to the last byte.     *)
ShortStreams ==
  {<<Msg(9, Bytes(5)), Msg(6, <<>>), Msg(13, Bytes(1))>>,
   <<Msg(2, <<>>), Msg(7, Bytes(10)), Msg(1, Bytes(2))>>}

(* Bodies of the largest size: the buffer grows to its maximum.            *)
LongStreams ==
  {<<Msg(1, Bytes(15)), Msg(6, Bytes(14)), Msg(11, Bytes(15))>>}

MCStreams == ShortStreams \union LongStreams

(* The stream of the first test of tests/test_stream_parser.hpp (16-39).   *)
TestStreams ==
  {<<[serviceId |-> 1, msgId |-> 2, msgSeq |-> 3, stageIndex |-> 1,
      body |-> [i \in 1..11 |-> 0]]>>}
=============================================================================
