---------------------------- MODULE BitConverter ----------------------------
(***************************************************************************)
(* BitConverter (src/playsocket_lib/bit_converter.hpp) and the integer     *)
(* accessors of RingBuffer (ring_buffer.hpp): how a 2, 4 or 8 byte integer *)
(* becomes bytes and how the bytes become the integer again.               *)
(*                                                                         *)
(* An integer of w bytes is a number below Radix^w: the casts between      *)
(* int16_t and uint16_t in the code keep the bits, and nothing here is     *)
(* ordered or negated.  The bits joined by | are disjoint, so | is +.      *)
(***************************************************************************)
EXTENDS Integers, Sequences, SequencesExt

CONSTANTS
  Radix,          (* number of values of a byte: 256                       *)
  HostBigEndian   (* std::endian::native == std::endian::big               *)

ASSUME RadixAssumption == Radix \in Nat \ {0, 1}
ASSUME HostAssumption == HostBigEndian \in BOOLEAN

Widths == {2, 4, 8}
RingWidths == {2, 4}   \* those the ring buffer writes and reads

(* Radix^i, the value of a 1 in byte i: 1 << 8*i.                          *)
Place[i \in 0..8] == IF i = 0 THEN 1 ELSE Radix * Place[i - 1]
Words(w) == 0..(Place[w] - 1)

-----------------------------------------------------------------------------
(* Byte i of v, counted from the least significant, alone (a digit) and in *)
(* its place (v & 0x..FF..); shifts by k bytes in a word of w bytes.       *)
Digit(v, i) == (v \div Place[i]) % Radix
Masked(v, i) == Digit(v, i) * Place[i]
ShiftLeftWide(v, k, w) == v * Place[k]   \* mutant: not cut to the width
ShiftLeft(v, k, w) == (v * Place[k]) % Place[w]
ShiftRight(v, k) == v \div Place[k]

(* The little-endian branches of toNetwork(uint16_t, uint32_t, uint64_t).  *)
Swapped16(v) ==
  ShiftLeft(Masked(v, 0), 1, 2) + ShiftRight(Masked(v, 1), 1)
Swapped32Unmasked(v) ==                 \* mutant: a mask is forgotten
  ShiftLeft(v, 3, 4) + ShiftLeft(v, 1, 4)
    + Masked(ShiftRight(v, 1), 1) + ShiftRight(v, 3)
Swapped32(v) ==
  ShiftLeft(v, 3, 4) + Masked(ShiftLeft(v, 1, 4), 2)
    + Masked(ShiftRight(v, 1), 1) + ShiftRight(v, 3)
Swapped64(v) ==
  ShiftLeft(v, 7, 8) + Masked(ShiftLeft(v, 5, 8), 6)
    + Masked(ShiftLeft(v, 3, 8), 5) + Masked(ShiftLeft(v, 1, 8), 4)
    + Masked(ShiftRight(v, 1), 3) + Masked(ShiftRight(v, 3), 2)
    + Masked(ShiftRight(v, 5), 1) + ShiftRight(v, 7)

ToNetwork(v, w) ==
  IF HostBigEndian THEN v
  ELSE CASE w = 2 -> Swapped16(v)
         [] w = 4 -> Swapped32(v)
         [] w = 8 -> Swapped64(v)

ToHost(v, w) == ToNetwork(v, w)

-----------------------------------------------------------------------------
(* RingBuffer::write(uint16_t) and write(uint32_t) push the most           *)
(* significant byte first; getInt16 and getInt32 take it first, on every   *)
(* host.                                                                   *)
ToBytesReversed(v, w) == [i \in 1..w |-> Digit(v, i - 1)]   \* mutant
ToBytes(v, w) == [i \in 1..w |-> Digit(v, w - i)]
FromBytes(bytes) ==
  CASE Len(bytes) = 2 -> bytes[1] * Place[1] + bytes[2]
    [] Len(bytes) = 4 -> bytes[1] * Place[3] + bytes[2] * Place[2]
                           + bytes[3] * Place[1] + bytes[4]

(***************************************************************************)
(* The integer that a reader who converts with toHost finds in the w bytes *)
(* of s from i on.  Mutant: it is not converted.                           *)
(***************************************************************************)
IntAtUnconverted(s, i, w) == FromBytes(SubSeq(s, i, i + w - 1))
IntAt(s, i, w) == ToHost(FromBytes(SubSeq(s, i, i + w - 1)), w)

(* The bytes of v as an integer of the host has them in memory.            *)
InMemory(v, w) ==
  IF HostBigEndian THEN ToBytes(v, w) ELSE Reverse(ToBytes(v, w))

=============================================================================
