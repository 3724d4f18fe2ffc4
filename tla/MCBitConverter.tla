--------------------------- MODULE MCBitConverter ---------------------------
(***************************************************************************)
(* The conversions, over every word of each width.  A state is one word,   *)
(* and a step goes to the word of the next conversion: ToNetwork, applied  *)
(* over and over as code that converts back and forth does.  A packet has  *)
(* its fields cut from the word, and a body of any length a size can say.  *)
(***************************************************************************)
EXTENDS ClientPacket

VARIABLES word, width

vars == <<word, width>>

Init ==
  /\ width \in Widths
  /\ word \in Words(width)

Convert ==
  /\ word' = ToNetwork(word, width)
  /\ UNCHANGED width

Spec == Init /\ [][Convert]_vars

-----------------------------------------------------------------------------
(* A converted integer is one of the same width, and lies in memory most   *)
(* significant byte first, whatever order the host has (bit_converter.hpp:9-65). *)
NetworkOrderInMemory ==
  /\ ToNetwork(word, width) \in Words(width)
  /\ InMemory(ToNetwork(word, width), width) = ToBytes(word, width)

(* toHost undoes toNetwork (bit_converter.hpp:67-95).                      *)
HostUndoesNetwork == ToHost(ToNetwork(word, width), width) = word

(* getInt16 and getInt32 undo write(uint16_t) and write(uint32_t)          *)
(* (ring_buffer.hpp:187-209, 247-268), with no conversion by the caller.   *)
BytesRoundTrip ==
  width \in RingWidths => FromBytes(ToBytes(word, width)) = word

PacketOf(v) ==
  [serviceId |-> v % Place[2], msgId |-> v % Place[4],
   msgSeq |-> (v \div Place[2]) % Place[2], errorCode |-> v \div Place[6],
   stageIndex |-> (v \div Place[5]) % Radix,
   body |-> [i \in 1..((v \div Place[4]) % Place[2]) |-> (v + i * i) % Radix]]

(* What the message of a packet holds once its body is as long as the      *)
(* header: a client that converts as StreamParser does finds every field   *)
(* of the header as it was given to makeClientMessageBody, whether the     *)
(* host of the server swaps bytes or not, and of the body all but the last *)
(* 13 bytes.  Those are the bytes written behind the message, which has    *)
(* bodySize bytes only (router_socket.cpp:118-121).                        *)
MessageReadAsGiven ==
  LET p    == PacketOf(word)
      made == MakeClientMessageBody(p)
  IN  Len(made.message) >= PacketHeader
        => /\ ReadHeader(made.message) = HeaderOf(p)
           /\ Len(made.behind) = PacketHeader
           /\ SubSeq(made.message, PacketHeader + 1, Len(made.message)) \o made.behind = p.body

(* The scratch buffer takes every packet: the largest body alone has one   *)
(* byte less than its first 64 KB, so it must grow to hold the header.     *)
NeverRefused == MakeClientMessageBody(PacketOf(word)).outcome = "ok"
=============================================================================
