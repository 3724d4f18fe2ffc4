---------------------------- MODULE ClientPacket ----------------------------
(***************************************************************************)
(* RouterSocket::makeClientMessageBody (router_socket.cpp:93-123): a        *)
(* packet for a client is written to the socket's scratch buffer, a         *)
(* RingBuffer (router_socket.hpp:213) that the call has cleared before,     *)
(* and read from there into the bytes of a zmq message.                     *)
(*                                                                          *)
(* The message is made with bodySize bytes, and the read copies the whole  *)
(* packet, PacketHeader bytes more, to its address: the message holds the   *)
(* first bodySize bytes of the packet, and the last PacketHeader bytes are  *)
(* written behind its allocation.  What they do there is outside of the     *)
(* model, which only says which bytes they are.                             *)
(***************************************************************************)
EXTENDS BitConverter

PacketHeader == 13
ScratchMaxInitial == Place[2]   \* mutant: the buffer may not grow
ScratchMax == 2 * Place[2]      \* 64 * 1024 * 2, the maximum of _buffer

(* _buffer.write(BitConverter::toNetwork(v)), and all that is written.     *)
Written(v, w) == ToBytes(ToNetwork(v, w), w)
PacketUnswapped(p) ==              \* mutant: msgId is not converted
  Written(Len(p.body), 2) \o Written(p.serviceId, 2) \o ToBytes(p.msgId, 4)
    \o Written(p.msgSeq, 2) \o Written(p.errorCode, 2) \o <<p.stageIndex>> \o p.body
Packet(p) ==
  Written(Len(p.body), 2) \o Written(p.serviceId, 2) \o Written(p.msgId, 4)
    \o Written(p.msgSeq, 2) \o Written(p.errorCode, 2) \o <<p.stageIndex>> \o p.body

(* The message the call returns and the bytes it writes behind it, or      *)
(* std::out_of_range of a write that finds the buffer full.  The size of a *)
(* body is a uint16_t, never over the maximum that is checked first.       *)
Made(outcome, message, behind) ==
  [outcome |-> outcome, message |-> message, behind |-> behind]

MakeClientMessageBody(p) ==
  LET packet   == Packet(p)
      bodySize == Len(p.body)
  IN  IF Len(packet) > ScratchMax THEN Made("out_of_range", <<>>, <<>>)
      ELSE Made("ok", SubSeq(packet, 1, bodySize), SubSeq(packet, bodySize + 1, Len(packet)))

-----------------------------------------------------------------------------
(* What a client finds in a message that holds a header, when it converts  *)
(* as StreamParser does: toHost of the integers it took most significant   *)
(* byte first.  HeaderOf is what it should find.                           *)
ReadHeader(bytes) ==
  [bodySize |-> IntAt(bytes, 1, 2), serviceId |-> IntAt(bytes, 3, 2),
   msgId |-> IntAt(bytes, 5, 4), msgSeq |-> IntAt(bytes, 9, 2),
   errorCode |-> IntAt(bytes, 11, 2), stageIndex |-> bytes[PacketHeader]]

HeaderOf(p) ==
  [bodySize |-> Len(p.body), serviceId |-> p.serviceId, msgId |-> p.msgId,
   msgSeq |-> p.msgSeq, errorCode |-> p.errorCode, stageIndex |-> p.stageIndex]

=============================================================================
