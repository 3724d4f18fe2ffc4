----------------------------- MODULE RingBuffer -----------------------------
(***************************************************************************)
(* Play::RingBuffer (src/playsocket_lib/ring_buffer.hpp): a byte queue     *)
(* in an array, with a reader index, a header (write) index and a size.    *)
(* It is used by one thread at a time.  The array doubles when it is full, *)
(* up to MaxCapacity, and the bytes are moved to the front of the new one. *)
(*                                                                         *)
(* Every overload of write and push is a loop over push(byte): StartWrite  *)
(* is the call, PushByte one iteration, PushRefused the exception that     *)
(* leaves the loop.  clear(count) and read(count) are loops that no        *)
(* exception can leave, and are one step each.                             *)
(***************************************************************************)
EXTENDS ByteCalls

CONSTANTS
  Zero,          (* the value std::vector gives to a new slot              *)
  InitCapacity,  (* constructor argument capacity                          *)
  MaxCapacity    (* constructor argument maxCapacity                       *)

(***************************************************************************)
(* The constructor throws when capacity > maxCapacity.  It accepts         *)
(* capacity 0, for which push divides by zero; both users of the class     *)
(* (stream_parser.hpp:20, router_socket.hpp:213) pass a positive one.      *)
(***************************************************************************)
ASSUME CapacityAssumption ==
  /\ InitCapacity \in Nat \ {0}
  /\ MaxCapacity \in Nat
  /\ InitCapacity <= MaxCapacity
ASSUME ByteAssumption == Zero \in Byte
ASSUME WriteAssumption == MaxWrite \in Nat

VARIABLES
  buffer,       (* _buffer: the array, indexed from 0                      *)
  capacity,     (* capacity()                                              *)
  readerIndex,  (* _readerIndex: the oldest byte                           *)
  headerIndex,  (* _headerIndex: the slot the next byte goes to            *)
  size,         (* _size: number of bytes stored                           *)
  pending,      (* the bytes of the current write call not yet pushed      *)
  ret           (* how the last call ended                                 *)

indices == <<readerIndex, headerIndex, size>>
ring == <<buffer, capacity, readerIndex, headerIndex, size>>
vars == <<buffer, capacity, readerIndex, headerIndex, size, pending, ret>>

Idle == pending = <<>>

-----------------------------------------------------------------------------
(* Mutants of nextIndex: the wrap comes a slot too late, a slot too early. *)
NextIndexLate(i) == (i + 1) % (capacity + 1)
NextIndexEarly(i) == (i + 1) % (capacity - 1)

(* nextIndex(), and nextIndex() applied n times.                           *)
NextIndex(i) == (i + 1) % capacity
Advance(i, n) == (i + n) % capacity

(* The n bytes from the reader index on.                                   *)
Front(n) == [i \in 1..n |-> buffer[Advance(readerIndex, i - 1)]]

(***************************************************************************)
(* isReadIndexValid(index, n): none of the n slots from index on is the    *)
(* header index, and the buffer is not empty.                              *)
(***************************************************************************)
IsReadIndexValid(index, n) ==
  \A i \in 0..n-1 : Advance(index, i) # headerIndex /\ size # 0

-----------------------------------------------------------------------------
Init ==
  /\ buffer = [i \in 0..InitCapacity-1 |-> Zero]
  /\ capacity = InitCapacity
  /\ readerIndex = 0
  /\ headerIndex = 0
  /\ size = 0
  /\ pending = <<>>
  /\ ret = Returns("new", 0, <<>>)

StartWrite(bytes) ==
  /\ Idle
  /\ pending' = bytes
  /\ ret' = Returns("write", Len(bytes), <<>>)
  /\ UNCHANGED ring

(* Mutants of resizeBuffer: the maximum itself is refused; the bytes are    *)
(* copied slot by slot, without starting at the reader index.              *)
CanResizeBelow(newCapacity) == newCapacity < MaxCapacity
ResizedInPlace(newCapacity) ==
  [i \in 0..newCapacity-1 |-> IF i < size THEN buffer[i] ELSE Zero]

(* resizeBuffer(newCapacity) throws above the maximum; otherwise it moves  *)
(* the contents to the front of a new array.                               *)
CanResize(newCapacity) == newCapacity <= MaxCapacity
Resized(newCapacity) ==
  [i \in 0..newCapacity-1 |->
     IF i < size THEN buffer[Advance(readerIndex, i)] ELSE Zero]

(* push(item) into a free slot ...                                         *)
PushInPlace ==
  /\ ~Idle
  /\ size # capacity
  /\ buffer' = [buffer EXCEPT ![headerIndex] = Head(pending)]
  /\ headerIndex' = NextIndex(headerIndex)
  /\ size' = size + 1
  /\ pending' = Tail(pending)
  /\ UNCHANGED <<capacity, readerIndex, ret>>

(* ... or after resizeBuffer(capacity() * 2): the header index is size then. *)
PushAndGrow ==
  /\ ~Idle
  /\ size = capacity
  /\ CanResize(capacity * 2)
  /\ buffer' = [Resized(capacity * 2) EXCEPT ![size] = Head(pending)]
  /\ capacity' = capacity * 2
  /\ readerIndex' = 0
  /\ headerIndex' = (size + 1) % (capacity * 2)
  /\ size' = size + 1
  /\ pending' = Tail(pending)
  /\ UNCHANGED ret

(* ... or resizeBuffer throws and the rest of the write call is abandoned. *)
PushRefused ==
  /\ ~Idle
  /\ size = capacity
  /\ ~CanResize(capacity * 2)
  /\ pending' = <<>>
  /\ ret' = Throws("write", ret.arg, "out_of_range")
  /\ UNCHANGED ring

Pop ==
  /\ Idle
  /\ IF size = 0
     THEN /\ ret' = Throws("pop", 1, "runtime_error")
          /\ UNCHANGED indices
     ELSE /\ ret' = Returns("pop", 1, Front(1))
          /\ readerIndex' = NextIndex(readerIndex)
          /\ size' = size - 1
          /\ UNCHANGED headerIndex
  /\ UNCHANGED <<buffer, capacity, pending>>

Peek ==
  /\ Idle
  /\ ret' = IF size = 0 THEN Throws("peek", 1, "runtime_error")
                        ELSE Returns("peek", 1, Front(1))
  /\ UNCHANGED <<ring, pending>>

(* clear(): the bytes stay in the array, only the indices are reset.       *)
Clear ==
  /\ Idle
  /\ readerIndex' = 0
  /\ headerIndex' = 0
  /\ size' = 0
  /\ ret' = Returns("clear", 0, <<>>)
  /\ UNCHANGED <<buffer, capacity, pending>>

ClearCount(n) ==
  /\ Idle
  /\ IF n > size
     THEN /\ ret' = Throws("clearCount", n, "invalid_argument")
          /\ UNCHANGED indices
     ELSE /\ ret' = Returns("clearCount", n, <<>>)
          /\ readerIndex' = Advance(readerIndex, n)
          /\ size' = size - n
          /\ UNCHANGED headerIndex
  /\ UNCHANGED <<buffer, capacity, pending>>

(* read(buffer, offset, n): pops until n bytes are read or none is left.   *)
Read(n) ==
  /\ Idle
  /\ LET m == IF n <= size THEN n ELSE size
     IN  /\ ret' = Returns("read", n, Front(m))
         /\ readerIndex' = Advance(readerIndex, m)
         /\ size' = size - m
  /\ UNCHANGED <<buffer, capacity, headerIndex, pending>>

(* peekInt16 and peekInt32, which are getIntN(_readerIndex).               *)
PeekInt(n) ==
  /\ Idle
  /\ ret' = IF IsReadIndexValid(readerIndex, n)
            THEN Returns("peekInt", n, Front(n))
            ELSE Throws("peekInt", n, "out_of_range")
  /\ UNCHANGED <<ring, pending>>

(* readInt16 and readInt32: peekIntN, then clear(n), which never throws    *)
(* here because a valid index implies n <= size (RingBufferProofs).        *)
ReadInt(n) ==
  /\ Idle
  /\ IF IsReadIndexValid(readerIndex, n)
     THEN /\ ret' = Returns("readInt", n, Front(n))
          /\ readerIndex' = Advance(readerIndex, n)
          /\ size' = size - n
          /\ UNCHANGED headerIndex
     ELSE /\ ret' = Throws("readInt", n, "out_of_range")
          /\ UNCHANGED indices
  /\ UNCHANGED <<buffer, capacity, pending>>

Next ==
  \/ \E bytes \in Chunks : StartWrite(bytes)
  \/ PushInPlace
  \/ PushAndGrow
  \/ PushRefused
  \/ Pop
  \/ Peek
  \/ Clear
  \/ \E n \in 0..MaxCapacity + 1 : ClearCount(n) \/ Read(n)
  \/ \E n \in IntWidths : PeekInt(n) \/ ReadInt(n)

Spec == Init /\ [][Next]_vars

-----------------------------------------------------------------------------
(* Every variable has its type; the indices stay inside the array.         *)
TypeOK ==
  /\ capacity \in InitCapacity..MaxCapacity
  /\ buffer \in [0..capacity-1 -> Byte]
  /\ readerIndex \in 0..capacity-1
  /\ headerIndex \in 0..capacity-1
  /\ size \in 0..capacity
  /\ pending \in Seq(Byte)
  /\ ret \in Results

(***************************************************************************)
(* The three index fields agree: the header index is the reader index      *)
(* advanced by size.  They are updated separately by push, pop, both       *)
(* clears and the resize, and nothing in the class recomputes one from the *)
(* others, so a single forgotten update shows only some calls later.       *)
(***************************************************************************)
IndexInv == headerIndex = Advance(readerIndex, size)

(***************************************************************************)
(* A write is refused only when the buffer holds MaxCapacity bytes, which  *)
(* is what the message of the exception says ("Queue has reached maximum   *)
(* capacity", ring_buffer.hpp:63).  It needs a maximum that repeated       *)
(* doubling reaches, as 8192 and 524288 in the parser do.                  *)
(***************************************************************************)
RefusedOnlyAtMaximum ==
  ret.call = "write" /\ ret.outcome = "out_of_range" => size = MaxCapacity

(***************************************************************************)
(* An integer is refused with "Index out of range" (ring_buffer.hpp:251,   *)
(* 262) only when fewer bytes are stored than it takes.                    *)
(***************************************************************************)
PeekRefusedOnlyWhenShort ==
  ret.call \in {"peekInt", "readInt"} /\ ret.outcome = "out_of_range"
    => size < ret.arg

(***************************************************************************)
(* The ring behaves as a queue: the bytes come out in the order they went  *)
(* in, through wrap-around, growth and writes that fail half-way, and each *)
(* call returns or throws as ByteQueue says.                               *)
(***************************************************************************)
Queue == INSTANCE ByteQueue WITH queue <- Front(size), cap <- capacity

ImplementsByteQueue == Queue!Spec

=============================================================================
