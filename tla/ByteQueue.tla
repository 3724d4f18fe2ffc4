----------------------------- MODULE ByteQueue -----------------------------
(***************************************************************************)
(* What Play::RingBuffer (src/playsocket_lib/ring_buffer.hpp) promises     *)
(* its callers: a first-in first-out queue of bytes with a capacity that   *)
(* doubles on demand up to a maximum.  The indices and the backing array   *)
(* of the ring are not visible here; the module RingBuffer has them and is *)
(* shown to implement this one.                                            *)
(*                                                                         *)
(* A call that loops over its argument (write, push of a vector) is a      *)
(* sequence of steps, because the loop may be left by an exception after   *)
(* any byte and the bytes stored before it stay in the queue.              *)
(***************************************************************************)
EXTENDS ByteCalls

CONSTANTS
  InitCapacity,  (* constructor argument capacity                          *)
  MaxCapacity    (* constructor argument maxCapacity                       *)

VARIABLES
  queue,     (* the bytes stored, oldest first                             *)
  cap,       (* capacity()                                                 *)
  pending,   (* the bytes of the current write call not yet pushed         *)
  ret        (* how the last call ended                                    *)

queueVars == <<queue, cap, pending, ret>>

Idle == pending = <<>>

Init ==
  /\ queue = <<>>
  /\ cap = InitCapacity
  /\ pending = <<>>
  /\ ret = Returns("new", 0, <<>>)

(***************************************************************************)
(* write(buffer, offset, count), write(span), write(intN), push(vector),   *)
(* push(byte): the call starts ...                                         *)
(***************************************************************************)
StartWrite(bytes) ==
  /\ Idle
  /\ pending' = bytes
  /\ ret' = Returns("write", Len(bytes), <<>>)
  /\ UNCHANGED <<queue, cap>>

(* ... and pushes its bytes one by one.  The queue grows when it is full ... *)
PushByte ==
  /\ ~Idle
  /\ \/ Len(queue) < cap /\ UNCHANGED cap
     \/ Len(queue) = cap /\ cap * 2 <= MaxCapacity /\ cap' = cap * 2
  /\ queue' = Append(queue, Head(pending))
  /\ pending' = Tail(pending)
  /\ UNCHANGED ret

(* ... and the call fails, keeping what it stored, when it cannot grow.    *)
PushRefused ==
  /\ ~Idle
  /\ Len(queue) = cap
  /\ cap * 2 > MaxCapacity
  /\ pending' = <<>>
  /\ ret' = Throws("write", ret.arg, "out_of_range")
  /\ UNCHANGED <<queue, cap>>

Pop ==
  /\ Idle
  /\ IF queue = <<>>
     THEN ret' = Throws("pop", 1, "runtime_error") /\ UNCHANGED queue
     ELSE ret' = Returns("pop", 1, Take(queue, 1)) /\ queue' = Tail(queue)
  /\ UNCHANGED <<cap, pending>>

Peek ==
  /\ Idle
  /\ ret' = IF queue = <<>> THEN Throws("peek", 1, "runtime_error")
                            ELSE Returns("peek", 1, Take(queue, 1))
  /\ UNCHANGED <<queue, cap, pending>>

Clear ==
  /\ Idle
  /\ queue' = <<>>
  /\ ret' = Returns("clear", 0, <<>>)
  /\ UNCHANGED <<cap, pending>>

ClearCount(n) ==
  /\ Idle
  /\ IF n > Len(queue)
     THEN ret' = Throws("clearCount", n, "invalid_argument") /\ UNCHANGED queue
     ELSE ret' = Returns("clearCount", n, <<>>) /\ queue' = Drop(queue, n)
  /\ UNCHANGED <<cap, pending>>

(* read(buffer, offset, count) returns what there is, at most count bytes. *)
Read(n) ==
  /\ Idle
  /\ LET m == IF n <= Len(queue) THEN n ELSE Len(queue)
     IN  /\ ret' = Returns("read", n, Take(queue, m))
         /\ queue' = Drop(queue, m)
  /\ UNCHANGED <<cap, pending>>

(***************************************************************************)
(* An n-byte integer can be read at the front of a queue q when n bytes    *)
(* are there, and the queue is not full: the validity check of the ring    *)
(* takes a full buffer for an empty one.                                   *)
(***************************************************************************)
IntReadable(q, n) == n <= Len(q) /\ Len(q) < cap

CanPeekInt(n) == IntReadable(queue, n)

PeekInt(n) ==
  /\ Idle
  /\ ret' = IF CanPeekInt(n) THEN Returns("peekInt", n, Take(queue, n))
                             ELSE Throws("peekInt", n, "out_of_range")
  /\ UNCHANGED <<queue, cap, pending>>

ReadInt(n) ==
  /\ Idle
  /\ IF CanPeekInt(n)
     THEN ret' = Returns("readInt", n, Take(queue, n)) /\ queue' = Drop(queue, n)
     ELSE ret' = Throws("readInt", n, "out_of_range") /\ UNCHANGED queue
  /\ UNCHANGED <<cap, pending>>

Next ==
  \/ \E bytes \in Chunks : StartWrite(bytes)
  \/ PushByte
  \/ PushRefused
  \/ Pop
  \/ Peek
  \/ Clear
  \/ \E n \in 0..MaxCapacity + 1 : ClearCount(n) \/ Read(n)
  \/ \E n \in IntWidths : PeekInt(n) \/ ReadInt(n)

Spec == Init /\ [][Next]_queueVars

=============================================================================
