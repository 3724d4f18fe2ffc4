---------------------------- MODULE StreamParser ----------------------------
(***************************************************************************)
(* Play::StreamParser (src/playsocket_lib/stream_parser.hpp), driven       *)
(* as Session::onReceived drives it (stream_socket.cpp:39-59): a byte      *)
(* stream arrives cut into chunks that have nothing to do with its         *)
(* messages; each chunk is written to the ring buffer and the buffer is    *)
(* parsed; an exception of either ends the session.                        *)
(*                                                                         *)
(* The ring is the queue of ByteQueue, which RingBuffer implements.  The   *)
(* client and the network are external: the client sends the messages of   *)
(* `sent` one after the other, the network delivers their bytes.           *)
(***************************************************************************)
EXTENDS BitConverter, ByteCalls

CONSTANTS
  InitCapacity,   (* 1024 * 8, and ...                                     *)
  MaxCapacity,    (* ... 1024 * 64 * 8: the arguments of _buffer           *)
  WireBigEndian,  (* the client writes integers most significant first     *)
  Streams         (* the sequences of messages a client may send           *)

HeaderSizeOfFields == 9   \* mutant: without the size of the body itself
HeaderSize == 11
MaxPacketSize == Place[2] - 1

(* The fields of a message in the order parse() reads them, after the size *)
(* of the body; stage_index has one byte and is read by readInt8.          *)
Messages ==
  [serviceId : Words(2), msgId : Words(4), msgSeq : Words(2),
   stageIndex : Byte, body : Seq(Byte)]

ASSUME ParserAssumption ==
  /\ Byte = 0..Radix-1
  /\ WireBigEndian \in BOOLEAN
  /\ InitCapacity \in Nat \ {0}
  /\ MaxCapacity \in Nat
  /\ InitCapacity <= MaxCapacity
ASSUME StreamAssumption ==
  \A messages \in Streams :
    /\ messages \in Seq(Messages)
    /\ \A i \in DOMAIN messages : Len(messages[i].body) <= MaxPacketSize

VARIABLES
  queue, cap, pending, ret,  (* _buffer, and the write call in progress    *)
  sent,   (* the messages the client sends                                 *)
  wire,   (* the bytes of them the server has not received yet             *)
  pc,     (* where the io thread is: "idle" outside of onReceived          *)
  batch,  (* the local list `messages` of parse()                          *)
  out     (* the messages onReceived has pushed to _recvBuffer             *)

Ring == INSTANCE ByteQueue

ringVars == <<queue, cap, pending, ret>>
vars == <<queue, cap, pending, ret, sent, wire, pc, batch, out>>

-----------------------------------------------------------------------------
(* The client, external: what it puts on the wire for v and for a message. *)
OnWire(v, w) == IF WireBigEndian THEN ToBytes(v, w) ELSE Reverse(ToBytes(v, w))
Encode(m) ==
  OnWire(Len(m.body), 2) \o OnWire(m.serviceId, 2) \o OnWire(m.msgId, 4)
    \o OnWire(m.msgSeq, 2) \o <<m.stageIndex>> \o m.body
EncodeAll(messages) == FlattenSeq([i \in DOMAIN messages |-> Encode(messages[i])])

(* Mutant: the size is not cast to uint16_t, and a large one is negative.  *)
BodySizeSigned ==
  LET v == IntAt(queue, 1, 2)
  IN  IF 2 * v >= Place[2] THEN v - Place[2] ELSE v

(* What parse() takes from the front of the buffer.                        *)
BodySize == IntAt(queue, 1, 2)
FrontMessage ==
  [serviceId |-> IntAt(queue, 3, 2), msgId |-> IntAt(queue, 5, 4),
   msgSeq |-> IntAt(queue, 9, 2), stageIndex |-> queue[11],
   body |-> SubSeq(queue, HeaderSize + 1, HeaderSize + BodySize)]

-----------------------------------------------------------------------------
Init ==
  /\ Ring!Init
  /\ sent \in Streams
  /\ wire = EncodeAll(sent)
  /\ pc = "idle"
  /\ batch = <<>>
  /\ out = <<>>

(* onReceived(buffer, n): _parser->write starts.                           *)
Receive(n) ==
  /\ pc = "idle"
  /\ n \in 1..Len(wire)
  /\ Ring!StartWrite(Take(wire, n))
  /\ wire' = Drop(wire, n)
  /\ pc' = "write"
  /\ UNCHANGED <<sent, batch, out>>

StoreByte ==
  /\ pc = "write"
  /\ Ring!PushByte
  /\ UNCHANGED <<sent, wire, pc, batch, out>>

(* write throws: onReceived catches it and disconnects, without parsing    *)
(* what was stored.                                                        *)
StoreFails ==
  /\ pc = "write"
  /\ Ring!PushRefused
  /\ pc' = "writeFailed"
  /\ UNCHANGED <<sent, wire, batch, out>>

StartParse ==
  /\ pc = "write"
  /\ pending = <<>>
  /\ pc' = "parse"
  /\ UNCHANGED <<ringVars, sent, wire, batch, out>>

(* Mutants: > for >= in the condition of the loop, < for <= in the other.  *)
HasHeaderLate == Len(queue) > HeaderSize
HasMessageLate == Len(queue) > BodySize + HeaderSize

HasHeader == Len(queue) >= HeaderSize
HasMessage == Len(queue) >= BodySize + HeaderSize

(***************************************************************************)
(* The accesses of one iteration that may throw, by the number of bytes of *)
(* the message taken before: peekInt16 of the size, which clear(2) then    *)
(* takes, readInt16, readInt32 and readInt16 of the next fields, readInt8. *)
(* The read of the body takes what there is and never throws.              *)
(***************************************************************************)
Accesses == {0, 2, 4, 8, 10}
Succeeds(k) ==
  LET rest == Drop(queue, k)
  IN  /\ k \in {0, 2, 8} => Ring!IntReadable(rest, 2)
      /\ k = 4 => Ring!IntReadable(rest, 4)
      /\ k = 10 => rest # <<>>   \* readInt8 is a pop

(* One iteration of the loop, when no access throws.                       *)
ParseOne ==
  /\ pc = "parse"
  /\ HasHeader
  /\ HasMessage
  /\ \A k \in Accesses : Succeeds(k)
  /\ batch' = Append(batch, FrontMessage)
  /\ queue' = Drop(queue, HeaderSize + BodySize)
  /\ UNCHANGED <<cap, pending, ret, sent, wire, pc, out>>

(* Mutant: the list of messages is not a new one in each call.             *)
ParseReturnsKept ==
  /\ pc = "parse"
  /\ HasHeader => Succeeds(0) /\ ~HasMessage
  /\ out' = out \o batch
  /\ pc' = "idle"
  /\ UNCHANGED <<ringVars, sent, wire, batch>>

(* parse() returns, and onReceived pushes the messages to _recvBuffer.     *)
ParseReturns ==
  /\ pc = "parse"
  /\ HasHeader => Succeeds(0) /\ ~HasMessage
  /\ out' = out \o batch
  /\ batch' = <<>>
  /\ pc' = "idle"
  /\ UNCHANGED <<ringVars, sent, wire>>

(* The first access that cannot be made throws, with the bytes before it   *)
(* taken; the list of messages is destroyed with the frame of parse(), and *)
(* onReceived disconnects.  The body size is never over: MAX_PACKET_SIZE   *)
(* is the largest uint16_t.                                                *)
ParseFails ==
  /\ pc = "parse"
  /\ HasHeader
  /\ \E k \in Accesses :
       /\ k > 0 => HasMessage
       /\ ~Succeeds(k)
       /\ \A j \in Accesses : j < k => Succeeds(j)
       /\ queue' = Drop(queue, k)
  /\ batch' = <<>>
  /\ pc' = "parseFailed"
  /\ UNCHANGED <<cap, pending, ret, sent, wire, out>>

Failed == pc \in {"writeFailed", "parseFailed"}

(* The session is over, or the client has nothing more to send.            *)
Done ==
  /\ Failed \/ (pc = "idle" /\ wire = <<>>)
  /\ UNCHANGED vars

Next ==
  \/ \E n \in 1..MaxWrite : Receive(n)
  \/ StoreByte
  \/ StoreFails
  \/ StartParse
  \/ ParseOne
  \/ ParseReturns
  \/ ParseFails
  \/ Done

(* The network delivers in the end, and the io thread runs what it has.    *)
Fairness ==
  /\ WF_vars(\E n \in 1..MaxWrite : Receive(n))
  /\ WF_vars(StoreByte \/ StoreFails \/ StartParse)
  /\ WF_vars(ParseOne \/ ParseReturns \/ ParseFails)

Spec == Init /\ [][Next]_vars
FairSpec == Spec /\ Fairness

-----------------------------------------------------------------------------
TypeOK ==
  /\ queue \in Seq(Byte) /\ pending \in Seq(Byte) /\ wire \in Seq(Byte)
  /\ cap \in InitCapacity..MaxCapacity
  /\ ret \in Results
  /\ sent \in Streams
  /\ pc \in {"idle", "write", "parse", "writeFailed", "parseFailed"}
  /\ batch \in Seq(Messages) /\ out \in Seq(Messages)

(* The bytes of the stream the server has received so far.                 *)
Received == Take(EncodeAll(sent), Len(EncodeAll(sent)) - Len(wire))

(***************************************************************************)
(* However the network cuts the stream, what is parsed is what was sent,   *)
(* in order, field by field.                                               *)
(***************************************************************************)
DeliveredInOrder == IsPrefix(out \o batch, sent)

(***************************************************************************)
(* When onReceived has returned, no complete message waits in the buffer   *)
(* for the next chunk to wake it up.                                       *)
(***************************************************************************)
PromptDelivery ==
  pc = "idle" /\ Len(out) < Len(sent) =>
    Len(EncodeAll(Take(sent, Len(out) + 1))) > Len(Received)

(***************************************************************************)
(* Every byte received is in a message delivered, in the list of parse(),  *)
(* in the buffer or in the write call.  A parse that throws has taken      *)
(* nothing from the buffer, so the list that dies with it is empty; a      *)
(* write that throws loses no byte but the rest of its chunk.              *)
(***************************************************************************)
NothingLost ==
  IF pc = "writeFailed"
  THEN IsPrefix(EncodeAll(out) \o queue, Received)
  ELSE EncodeAll(out \o batch) \o queue \o pending = Received

(***************************************************************************)
(* What stays in the buffer between two receives is less than one message  *)
(* of the largest size, so it refuses a chunk only when the chunk is       *)
(* nearly as long as the whole buffer (64 KB of 512 KB are residue).       *)
(***************************************************************************)
RefusesOnlyLongChunks ==
  pc = "writeFailed" => ret.arg + (HeaderSize + MaxPacketSize - 1) > MaxCapacity

(***************************************************************************)
(* parse throws only at the first access of a call, and only on a buffer   *)
(* full to its capacity: once one message is out, or only its size is, no  *)
(* read of any field can throw, so nothing that was parsed or taken from   *)
(* the buffer dies with the exception.                                     *)
(***************************************************************************)
ParseThrowsFirst ==
  [][pc = "parse" /\ pc' = "parseFailed"
       => Len(queue) = cap /\ batch = <<>> /\ queue' = queue]_vars

(***************************************************************************)
(* Once all bytes are in and onReceived has returned, all messages are out *)
(* (what tests/test_stream_parser.hpp asserts for its streams).            *)
(***************************************************************************)
ReceivedIsParsed == pc = "idle" /\ wire = <<>> => out = sent

(***************************************************************************)
(* Together: onReceived implements the message stream, whatever it stores, *)
(* parses or throws between two deliveries.                                *)
(***************************************************************************)
Stream == INSTANCE MessageStream WITH live <- ~Failed
ImplementsMessageStream == Stream!FairSpec

(* Every message sent is delivered in the end, unless the session fails.   *)
EventuallyDelivered == <>(Failed \/ out = sent)

=============================================================================
