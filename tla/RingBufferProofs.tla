-------------------------- MODULE RingBufferProofs --------------------------
(***************************************************************************)
(* Proofs about RingBuffer, for every capacity, maximum and set of bytes:  *)
(* the fields have their types, the three index fields agree, and the ring *)
(* implements the queue of ByteQueue.                                      *)
(***************************************************************************)
EXTENDS RingBuffer, SequenceTheorems, TLAPS

(***************************************************************************)
(* Arithmetic of the ring: an index advanced by at most one turn is        *)
(* reduced by one subtraction.                                             *)
(***************************************************************************)
LEMMA ModOneTurn ==
  ASSUME NEW c \in Nat \ {0}, NEW a \in Nat, a < 2 * c
  PROVE  a % c = IF a < c THEN a ELSE a - c
<1>1. CASE a < c
  BY <1>1
<1>2. CASE a >= c
  BY <1>2
<1> QED
  BY <1>1, <1>2

LEMMA ModInRange ==
  ASSUME NEW c \in Nat \ {0}, NEW a \in Nat
  PROVE  a % c \in 0..c-1
OBVIOUS

LEMMA ChunksAreSequences == Chunks \subseteq Seq(Byte)
BY WriteAssumption DEF Chunks

(* What Returns and Throws build are results.                              *)
LEMMA ResultTypes ==
  ASSUME NEW call \in Calls, NEW arg \in Nat
  PROVE  /\ \A value \in Seq(Byte) : Returns(call, arg, value) \in Results
         /\ \A e \in Exceptions : Throws(call, arg, e) \in Results
<1>1. <<>> \in Seq(Byte)
  OBVIOUS
<1> QED
  BY <1>1 DEF Returns, Throws, Results

LEMMA InitInv == Init => TypeOK /\ IndexInv
BY CapacityAssumption, ByteAssumption
   DEF Init, TypeOK, IndexInv, Advance, Returns, Results, Calls

(***************************************************************************)
(* The facts about an index that every step uses: advancing by at most the *)
(* capacity lands inside the array, on the slot one subtraction gives.     *)
(***************************************************************************)
LEMMA AdvanceValue ==
  ASSUME TypeOK, NEW i \in 0..capacity-1, NEW n \in 0..capacity
  PROVE  /\ Advance(i, n) \in 0..capacity-1
         /\ Advance(i, n) = IF i + n < capacity THEN i + n ELSE i + n - capacity
<1>1. capacity \in Nat \ {0}
  BY CapacityAssumption DEF TypeOK
<1> DEFINE a == i + n
<1>2. a \in Nat /\ a < 2 * capacity
  BY <1>1
<1> HIDE DEF a
<1>3. a % capacity \in 0..capacity-1
  BY <1>1, <1>2, ModInRange
<1>4. a % capacity = IF a < capacity THEN a ELSE a - capacity
  BY <1>1, <1>2, ModOneTurn
<1>5. Advance(i, n) = a % capacity
  BY DEF Advance, a
<1>6. Advance(i, n) \in 0..capacity-1
  BY <1>3, <1>5
<1>7. Advance(i, n) = IF a < capacity THEN a ELSE a - capacity
  BY <1>4, <1>5
<1> QED
  BY <1>1, <1>2, <1>6, <1>7 DEF a

(* Advancing by m and then by the rest is advancing by all of it.          *)
LEMMA AdvanceSplit ==
  ASSUME TypeOK, NEW i \in 0..capacity-1, NEW n \in 0..capacity, NEW m \in 0..n
  PROVE  Advance(Advance(i, m), n - m) = Advance(i, n)
<1>1. capacity \in Nat \ {0} /\ n - m \in 0..capacity /\ m \in 0..capacity
  BY CapacityAssumption DEF TypeOK
<1> DEFINE j == Advance(i, m)
<1>2. /\ j \in 0..capacity-1
      /\ j = IF i + m < capacity THEN i + m ELSE i + m - capacity
  BY <1>1, AdvanceValue
<1>3. Advance(i, n) = IF i + n < capacity THEN i + n ELSE i + n - capacity
  BY AdvanceValue
<1> HIDE DEF j
<1>4. Advance(j, n - m) = IF j + (n - m) < capacity THEN j + (n - m)
                                                    ELSE j + (n - m) - capacity
  BY <1>1, <1>2, AdvanceValue
<1>5. Advance(j, n - m) = Advance(i, n)
  BY <1>1, <1>2, <1>3, <1>4
<1> QED
  BY <1>5 DEF j

(***************************************************************************)
(* What isReadIndexValid(_readerIndex, n) computes: n bytes are stored and *)
(* the buffer is not full.  When it is full the header index has caught up *)
(* with the reader index, and the first comparison already fails.          *)
(***************************************************************************)
LEMMA ReadIndexValid ==
  ASSUME TypeOK, IndexInv, NEW n \in Nat \ {0}
  PROVE  IsReadIndexValid(readerIndex, n) <=> n <= size /\ size < capacity
<1>1. capacity \in Nat \ {0} /\ size \in 0..capacity /\ readerIndex \in 0..capacity-1
  BY CapacityAssumption DEF TypeOK
<1>2. ASSUME n <= size, size < capacity, NEW i \in 0..n-1
      PROVE  Advance(readerIndex, i) # headerIndex /\ size # 0
  <2>1. i \in 0..capacity /\ i < size
    BY <1>1, <1>2
  <2>2. Advance(readerIndex, i) = IF readerIndex + i < capacity THEN readerIndex + i
                                  ELSE readerIndex + i - capacity
    BY <1>1, <2>1, AdvanceValue
  <2>3. headerIndex = IF readerIndex + size < capacity THEN readerIndex + size
                      ELSE readerIndex + size - capacity
    BY <1>1, AdvanceValue DEF IndexInv
  <2> QED
    BY <1>1, <1>2, <2>1, <2>2, <2>3
<1>3. ASSUME size = capacity
      PROVE  ~IsReadIndexValid(readerIndex, n)
  <2>1. Advance(readerIndex, 0) = readerIndex
    BY <1>1, AdvanceValue
  <2>2. headerIndex = readerIndex
    BY <1>1, <1>3, AdvanceValue DEF IndexInv
  <2>3. 0 \in 0..n-1
    OBVIOUS
  <2> QED
    BY <2>1, <2>2, <2>3 DEF IsReadIndexValid
<1>4. ASSUME size < n
      PROVE  ~IsReadIndexValid(readerIndex, n)
  <2>1. size \in 0..n-1
    BY <1>1, <1>4
  <2> QED
    BY <2>1 DEF IsReadIndexValid, IndexInv
<1>5. (n <= size /\ size < capacity) => IsReadIndexValid(readerIndex, n)
  BY <1>2 DEF IsReadIndexValid
<1> QED
  BY <1>1, <1>3, <1>4, <1>5

LEMMA FrontType ==
  ASSUME TypeOK, NEW n \in 0..capacity
  PROVE  Front(n) \in Seq(Byte) /\ Len(Front(n)) = n
<1>1. n \in Nat /\ capacity \in Nat \ {0}
  BY CapacityAssumption DEF TypeOK
<1>2. ASSUME NEW i \in 1..n
      PROVE  Advance(readerIndex, i - 1) \in 0..capacity-1
  <2>1. i - 1 \in 0..capacity /\ readerIndex \in 0..capacity-1
    BY <1>1 DEF TypeOK
  <2> QED
    BY <2>1, AdvanceValue
<1>3. Front(n) \in [1..n -> Byte]
  BY <1>2 DEF Front, TypeOK
<1> QED
  BY <1>1, <1>3

(***************************************************************************)
(* TypeOK and IndexInv together are inductive: the header index stays in   *)
(* the array only because it is the reader index advanced by size, and     *)
(* that equation needs the indices to be in range.                         *)
(***************************************************************************)
LEMMA NextInv == TypeOK /\ IndexInv /\ [Next]_vars => TypeOK' /\ IndexInv'
<1> SUFFICES ASSUME TypeOK, IndexInv, [Next]_vars
             PROVE  TypeOK' /\ IndexInv'
  OBVIOUS
<1> USE CapacityAssumption, ByteAssumption
<1>c. /\ capacity \in Nat \ {0}
      /\ capacity \in InitCapacity..MaxCapacity
      /\ size \in Nat
  BY DEF TypeOK
<1>1. ASSUME NEW bytes \in Chunks, StartWrite(bytes)
      PROVE  TypeOK' /\ IndexInv'
  <2>1. bytes \in Seq(Byte) /\ Len(bytes) \in Nat
    BY ChunksAreSequences
  <2>2. ret' \in Results
    BY <1>1, <2>1 DEF StartWrite, Returns, Results, Calls
  <2> QED
    BY <1>1, <2>1, <2>2 DEF StartWrite, ring, TypeOK, IndexInv, Advance
<1>2. CASE PushInPlace
  <2>1. Head(pending) \in Byte /\ Tail(pending) \in Seq(Byte)
    BY <1>2 DEF PushInPlace, Idle, TypeOK
  <2>2. size + 1 \in 0..capacity /\ NextIndex(headerIndex) = Advance(headerIndex, 1)
    BY <1>2, <1>c DEF PushInPlace, TypeOK, NextIndex, Advance
  <2>3. headerIndex' \in 0..capacity-1
    BY <1>2, <1>c, <2>2, AdvanceValue DEF PushInPlace, TypeOK
  <2>4. TypeOK'
    BY <1>2, <2>1, <2>2, <2>3 DEF PushInPlace, TypeOK
  <2>5. headerIndex' = Advance(readerIndex, size + 1)
    <3>1. Advance(headerIndex, 1) = Advance(readerIndex, size + 1)
      <4>1. /\ readerIndex \in 0..capacity-1
            /\ size \in 0..(size + 1)
            /\ (size + 1) - size = 1
        BY <1>c DEF TypeOK
      <4>2. Advance(Advance(readerIndex, size), (size + 1) - size)
              = Advance(readerIndex, size + 1)
        BY <2>2, <4>1, AdvanceSplit
      <4> QED
        BY <4>1, <4>2 DEF IndexInv
    <3> QED
      BY <1>2, <2>2, <3>1 DEF PushInPlace
  <2> QED
    BY <1>2, <2>4, <2>5 DEF PushInPlace, IndexInv, Advance
<1>3. CASE PushAndGrow
  <2>1. Head(pending) \in Byte /\ Tail(pending) \in Seq(Byte)
    BY <1>3 DEF PushAndGrow, Idle, TypeOK
  <2>2. capacity' \in InitCapacity..MaxCapacity /\ capacity' = capacity * 2
    BY <1>3, <1>c DEF PushAndGrow, CanResize
  <2>3. \A i \in 0..capacity-1 : Advance(readerIndex, i) \in 0..capacity-1
    <3> TAKE i \in 0..capacity-1
    <3>1. i \in 0..capacity /\ readerIndex \in 0..capacity-1
      BY <1>c DEF TypeOK
    <3> QED
      BY <3>1, AdvanceValue
  <2>4. Resized(capacity * 2) \in [0..capacity*2-1 -> Byte]
    <3>1. size = capacity /\ buffer \in [0..capacity-1 -> Byte]
      BY <1>3 DEF PushAndGrow, TypeOK
    <3>2. ASSUME NEW i \in 0..capacity*2-1
          PROVE  (IF i < size THEN buffer[Advance(readerIndex, i)] ELSE Zero) \in Byte
      <4>1. i < size => i \in 0..capacity-1
        BY <1>c, <3>1
      <4> QED
        BY <2>3, <3>1, <4>1
    <3> QED
      BY <3>2 DEF Resized
  <2>5. buffer' \in [0..capacity'-1 -> Byte]
    BY <1>3, <2>1, <2>2, <2>4 DEF PushAndGrow
  <2>6. headerIndex' \in 0..capacity'-1 /\ size' \in 0..capacity'
    <3>1. size = capacity /\ size + 1 \in Nat /\ capacity * 2 \in Nat \ {0}
      BY <1>3, <1>c DEF PushAndGrow
    <3>2. (size + 1) % (capacity * 2) \in 0..capacity*2-1
      BY <3>1, ModInRange
    <3> QED
      BY <1>3, <1>c, <2>2, <3>1, <3>2 DEF PushAndGrow
  <2>7. TypeOK'
    BY <1>3, <1>c, <2>1, <2>2, <2>5, <2>6 DEF PushAndGrow, TypeOK
  <2>8. IndexInv'
    BY <1>3, <1>c DEF PushAndGrow, IndexInv, Advance
  <2> QED
    BY <2>7, <2>8
<1>4. CASE PushRefused
  BY <1>4 DEF PushRefused, ring, TypeOK, IndexInv, Advance, Throws, Results,
              Calls, Exceptions
<1>5. CASE Pop
  <2>1. size # 0 => /\ size - 1 \in 0..capacity
                    /\ NextIndex(readerIndex) = Advance(readerIndex, 1)
                    /\ 1 \in 0..capacity
    BY <1>c DEF TypeOK, NextIndex, Advance
  <2>2. ret' \in Results
    BY <1>5, <2>1, FrontType, ResultTypes DEF Pop, Calls, Exceptions
  <2>3. readerIndex' \in 0..capacity-1 /\ size' \in 0..capacity
    BY <1>5, <1>c, <2>1, AdvanceValue DEF Pop, TypeOK, indices
  <2>4. TypeOK'
    BY <1>5, <2>2, <2>3 DEF Pop, TypeOK, indices
  <2>5. Advance(readerIndex', size') = Advance(readerIndex, size)
    <3>1. CASE size = 0
      BY <1>5, <3>1 DEF Pop, indices
    <3>2. CASE size # 0
      <4>1. readerIndex' = Advance(readerIndex, 1) /\ size' = size - 1 /\ 1 \in 0..size
        BY <1>5, <1>c, <2>1, <3>2 DEF Pop
      <4> QED
        BY <4>1, AdvanceSplit DEF TypeOK
    <3> QED
      BY <3>1, <3>2
  <2> QED
    BY <1>5, <2>4, <2>5 DEF Pop, IndexInv, Advance, indices
<1>6. CASE Peek
  <2>1. ret' \in Results
    BY <1>6, <1>c, FrontType, ResultTypes DEF Peek, Calls, Exceptions, TypeOK
  <2> QED
    BY <1>6, <2>1 DEF Peek, ring, TypeOK, IndexInv, Advance
<1>7. CASE Clear
  BY <1>7, <1>c DEF Clear, TypeOK, IndexInv, Advance, Returns, Results, Calls
<1>8. ASSUME NEW n \in 0..MaxCapacity + 1, ClearCount(n)
      PROVE  TypeOK' /\ IndexInv'
  <2>1. ret' \in Results
    <3>1. n \in Nat /\ <<>> \in Seq(Byte)
      BY <1>c
    <3>2. /\ Returns("clearCount", n, <<>>) \in Results
          /\ Throws("clearCount", n, "invalid_argument") \in Results
      BY <3>1, ResultTypes DEF Calls, Exceptions
    <3> QED
      BY <1>8, <3>2 DEF ClearCount
  <2>2. CASE n > size
    BY <1>8, <2>1, <2>2 DEF ClearCount, TypeOK, IndexInv, Advance, indices
  <2>3. CASE n <= size
    <3>1. n \in 0..capacity /\ size - n \in 0..capacity
      BY <1>c, <2>3 DEF TypeOK
    <3>2. readerIndex' = Advance(readerIndex, n) /\ size' = size - n
      BY <1>8, <1>c, <2>3 DEF ClearCount
    <3>3. readerIndex' \in 0..capacity-1
      BY <3>1, <3>2, AdvanceValue DEF TypeOK
    <3>4. Advance(readerIndex', size') = Advance(readerIndex, size)
      BY <1>c, <2>3, <3>1, <3>2, AdvanceSplit DEF TypeOK
    <3> QED
      BY <1>8, <1>c, <2>1, <2>3, <3>1, <3>2, <3>3, <3>4
         DEF ClearCount, TypeOK, IndexInv, Advance
  <2> QED
    BY <1>c, <2>2, <2>3
<1>9. ASSUME NEW n \in 0..MaxCapacity + 1, Read(n)
      PROVE  TypeOK' /\ IndexInv'
  <2> DEFINE m == IF n <= size THEN n ELSE size
  <2>1. m \in 0..capacity /\ size - m \in 0..capacity
    BY <1>c DEF TypeOK
  <2>2. readerIndex' = Advance(readerIndex, m) /\ size' = size - m
    BY <1>9 DEF Read
  <2>3. ret' \in Results
    BY <1>9, <2>1, FrontType DEF Read, Returns, Results, Calls
  <2>4. readerIndex' \in 0..capacity-1
    BY <2>1, <2>2, AdvanceValue DEF TypeOK
  <2>5. Advance(readerIndex', size') = Advance(readerIndex, size)
    <3>1. m \in 0..size
      BY <1>c
    <3> QED
      BY <2>2, <3>1, AdvanceSplit DEF TypeOK
  <2> QED
    BY <1>9, <2>1, <2>2, <2>3, <2>4, <2>5 DEF Read, TypeOK, IndexInv, Advance
<1>10. ASSUME NEW n \in IntWidths, PeekInt(n)
       PROVE  TypeOK' /\ IndexInv'
  <2>1. n \in Nat \ {0}
    BY DEF IntWidths
  <2>2. IsReadIndexValid(readerIndex, n) => n \in 0..capacity
    BY <1>c, <2>1, ReadIndexValid
  <2>3. ret' \in Results
    BY <1>10, <2>1, <2>2, FrontType, ResultTypes DEF PeekInt, Calls, Exceptions
  <2> QED
    BY <1>10, <2>3 DEF PeekInt, ring, TypeOK, IndexInv, Advance
<1>11. ASSUME NEW n \in IntWidths, ReadInt(n)
       PROVE  TypeOK' /\ IndexInv'
  <2>1. n \in Nat \ {0}
    BY DEF IntWidths
  <2>2. IsReadIndexValid(readerIndex, n) => n \in 0..size /\ n \in 0..capacity
    BY <1>c, <2>1, ReadIndexValid
  <2>3. ret' \in Results
    BY <1>11, <2>1, <2>2, FrontType, ResultTypes DEF ReadInt, Calls, Exceptions
  <2>4. CASE ~IsReadIndexValid(readerIndex, n)
    BY <1>11, <2>3, <2>4 DEF ReadInt, TypeOK, IndexInv, Advance, indices
  <2>5. CASE IsReadIndexValid(readerIndex, n)
    <3>1. readerIndex' = Advance(readerIndex, n) /\ size' = size - n
      BY <1>11, <2>5 DEF ReadInt
    <3>2. readerIndex' \in 0..capacity-1 /\ size' \in 0..capacity
      <4>1. n \in 0..capacity /\ readerIndex \in 0..capacity-1 /\ size - n \in 0..capacity
        BY <1>c, <2>2, <2>5 DEF TypeOK
      <4>2. Advance(readerIndex, n) \in 0..capacity-1
        BY <4>1, AdvanceValue
      <4> QED
        BY <3>1, <4>1, <4>2
    <3>3. Advance(readerIndex', size') = Advance(readerIndex, size)
      BY <2>2, <2>5, <3>1, AdvanceSplit DEF TypeOK
    <3> QED
      BY <1>11, <2>3, <2>5, <3>2, <3>3 DEF ReadInt, TypeOK, IndexInv, Advance
  <2> QED
    BY <2>4, <2>5
<1>12. CASE UNCHANGED vars
  BY <1>12 DEF vars, TypeOK, IndexInv, Advance
<1> QED
  BY <1>1, <1>2, <1>3, <1>4, <1>5, <1>6, <1>7, <1>8, <1>9, <1>10, <1>11, <1>12
     DEF Next

(***************************************************************************)
(* The fields of the ring always have their types; in particular the       *)
(* reader and header indices never leave the array.                        *)
(***************************************************************************)
THEOREM TypeCorrect == Spec => []TypeOK
<1>1. TypeOK /\ IndexInv /\ [Next]_vars => (TypeOK /\ IndexInv)'
  BY NextInv
<1> QED
  BY InitInv, <1>1, PTL DEF Spec

(***************************************************************************)
(* The header index is always the reader index advanced by size: push,     *)
(* pop, clear and the resize keep the three fields consistent.             *)
(***************************************************************************)
THEOREM IndicesAgree == Spec => []IndexInv
<1>1. TypeOK /\ IndexInv /\ [Next]_vars => (TypeOK /\ IndexInv)'
  BY NextInv
<1> QED
  BY InitInv, <1>1, PTL DEF Spec

-----------------------------------------------------------------------------
(***************************************************************************)
(* The maximum is the initial capacity doubled a number of times, as 8 KB  *)
(* doubled six times are the 512 KB of StreamParser: Sizes are the         *)
(* capacities on the way.                                                  *)
(***************************************************************************)
Doubling(Sizes) ==
  /\ InitCapacity \in Sizes
  /\ \A c \in Sizes : c # MaxCapacity => 2 * c \in Sizes
ReachesMaximum == \E Sizes \in SUBSET (1..MaxCapacity) : Doubling(Sizes)

WriteRefused == ret.call = "write" /\ ret.outcome = "out_of_range"
GrowthInv(Sizes) ==
  /\ capacity \in Sizes
  /\ WriteRefused => pending = <<>> /\ size = MaxCapacity

LEMMA GrowthStep ==
  ASSUME NEW Sizes \in SUBSET (1..MaxCapacity), Doubling(Sizes),
         TypeOK, GrowthInv(Sizes), [Next]_vars
  PROVE  GrowthInv(Sizes)'
<1> USE DEF GrowthInv, WriteRefused, ring, indices, Idle
<1>1. capacity \in Nat /\ MaxCapacity \in Nat
  BY CapacityAssumption DEF TypeOK
<1>2. CASE \E bytes \in Chunks : StartWrite(bytes)
  BY <1>2 DEF StartWrite, Returns
<1>3. CASE PushInPlace
  BY <1>3 DEF PushInPlace
<1>4. CASE PushAndGrow
  <2>1. capacity # MaxCapacity
    BY <1>1, <1>4 DEF PushAndGrow, CanResize
  <2> QED
    BY <1>1, <1>4, <2>1 DEF PushAndGrow, Doubling
<1>5. CASE PushRefused
  <2>1. ~(2 * capacity <= MaxCapacity)
    BY <1>1, <1>5 DEF PushRefused, CanResize
  <2>2. capacity = MaxCapacity
    BY <1>1, <2>1 DEF Doubling
  <2> QED
    BY <1>5, <2>2 DEF PushRefused
<1>6. CASE Pop
  BY <1>6 DEF Pop, Returns, Throws
<1>7. CASE Peek
  BY <1>7 DEF Peek, Returns, Throws
<1>8. CASE Clear
  BY <1>8 DEF Clear, Returns
<1>9. CASE \E n \in 0..MaxCapacity + 1 : ClearCount(n) \/ Read(n)
  BY <1>9 DEF ClearCount, Read, Returns, Throws
<1>10. CASE \E n \in IntWidths : PeekInt(n) \/ ReadInt(n)
  BY <1>10 DEF PeekInt, ReadInt, Returns, Throws
<1>11. CASE UNCHANGED vars
  BY <1>11 DEF vars
<1> QED
  BY <1>2, <1>3, <1>4, <1>5, <1>6, <1>7, <1>8, <1>9, <1>10, <1>11 DEF Next

(***************************************************************************)
(* If doubling reaches the maximum, push and write throw only when the     *)
(* buffer holds as many bytes as it ever may.                              *)
(***************************************************************************)
THEOREM RefusedMeansFull ==
  ASSUME ReachesMaximum
  PROVE  Spec => []RefusedOnlyAtMaximum
<1>1. PICK Sizes \in SUBSET (1..MaxCapacity) : Doubling(Sizes)
  BY DEF ReachesMaximum
<1>2. Init => GrowthInv(Sizes)
  BY <1>1 DEF Init, GrowthInv, WriteRefused, Returns, Doubling
<1>3. TypeOK /\ GrowthInv(Sizes) /\ [Next]_vars => GrowthInv(Sizes)'
  BY <1>1, GrowthStep
<1>4. GrowthInv(Sizes) => RefusedOnlyAtMaximum
  BY DEF GrowthInv, WriteRefused, RefusedOnlyAtMaximum
<1> QED
  BY TypeCorrect, <1>2, <1>3, <1>4, PTL DEF Spec

-----------------------------------------------------------------------------
(***************************************************************************)
(* What the indices mean to a caller: Front(size) is the queue.  Its first *)
(* m bytes are Front(m), and advancing the reader index by m drops them.   *)
(***************************************************************************)
LEMMA TakeFront ==
  ASSUME TypeOK, NEW m \in 0..size
  PROVE  Take(Front(size), m) = Front(m)
<1>1. /\ capacity \in Nat \ {0} /\ size \in 0..capacity
      /\ m \in 0..capacity /\ m \in Nat /\ size \in Nat
  BY CapacityAssumption DEF TypeOK
<1>2. /\ Front(size) \in Seq(Byte) /\ Len(Front(size)) = size
      /\ Front(m) \in Seq(Byte) /\ Len(Front(m)) = m
  BY <1>1, FrontType
<1>3. \A i \in 1..m : Front(size)[i] \in Byte
  BY <1>1, <1>2, ElementOfSeq
<1>4. /\ Take(Front(size), m) \in Seq(Byte) /\ Len(Take(Front(size), m)) = m
      /\ \A i \in 1..m : Take(Front(size), m)[i] = Front(size)[i]
  <2>1. /\ SubSeq(Front(size), 1, m) \in Seq(Byte)
        /\ Len(SubSeq(Front(size), 1, m)) = IF 1 <= m THEN m - 1 + 1 ELSE 0
        /\ \A i \in 1..m-1+1 : SubSeq(Front(size), 1, m)[i] = Front(size)[1 + i - 1]
    BY <1>1, <1>3, SubSeqProperties
  <2> QED
    BY <1>1, <2>1 DEF Take
<1>5. \A i \in 1..m : Front(size)[i] = Front(m)[i]
  BY <1>1 DEF Front
<1> QED
  BY <1>2, <1>4, <1>5, SeqEqual

LEMMA DropFront ==
  ASSUME TypeOK, NEW m \in 0..size, UNCHANGED <<buffer, capacity>>,
         readerIndex' = Advance(readerIndex, m), size' = size - m
  PROVE  Front(size)' = Drop(Front(size), m)
<1>1. /\ capacity \in Nat \ {0} /\ size \in 0..capacity /\ size \in Nat
      /\ m \in Nat /\ readerIndex \in 0..capacity-1
  BY CapacityAssumption DEF TypeOK
<1>2. Front(size) \in Seq(Byte) /\ Len(Front(size)) = size
  BY <1>1, FrontType
<1>3. \A i \in m+1..size : Front(size)[i] \in Byte
  BY <1>1, <1>2, ElementOfSeq
<1>4. /\ Drop(Front(size), m) \in Seq(Byte) /\ Len(Drop(Front(size), m)) = size - m
      /\ \A i \in 1..size-m : Drop(Front(size), m)[i] = Front(size)[m + i]
  <2>1. /\ SubSeq(Front(size), m + 1, size) \in Seq(Byte)
        /\ Len(SubSeq(Front(size), m + 1, size))
             = IF m + 1 <= size THEN size - (m + 1) + 1 ELSE 0
        /\ \A i \in 1..size-(m+1)+1 :
             SubSeq(Front(size), m + 1, size)[i] = Front(size)[m + 1 + i - 1]
    BY <1>1, <1>3, SubSeqProperties
  <2> QED
    BY <1>1, <1>2, <2>1 DEF Drop
<1>5. ASSUME NEW i \in 1..size-m
      PROVE  Front(size)'[i] = Front(size)[m + i]
  <2>1. m + i - 1 \in 0..capacity /\ m \in 0..(m + i - 1) /\ (m + i - 1) - m = i - 1
    BY <1>1
  <2>2. Advance(Advance(readerIndex, m), (m + i - 1) - m) = Advance(readerIndex, m + i - 1)
    BY <1>1, <2>1, AdvanceSplit
  <2>3. Front(size)'[i] = buffer[Advance(readerIndex', i - 1)]
    BY DEF Front, Advance
  <2>4. Front(size)[m + i] = buffer[Advance(readerIndex, m + i - 1)]
    BY <1>1 DEF Front
  <2> QED
    BY <2>1, <2>2, <2>3, <2>4
<1>6. Front(size)' \in Seq(Byte) /\ Len(Front(size)') = size - m
  <2>1. \A i \in 1..size-m : Front(size)'[i] \in Byte
    BY <1>1, <1>3, <1>5
  <2>2. Front(size)' \in [1..size-m -> Byte]
    BY <2>1 DEF Front
  <2> QED
    BY <1>1, <2>2
<1> QED
  BY <1>4, <1>5, <1>6, SeqEqual

(* A byte pushed, in place or after the array has grown, is the new last.  *)
LEMMA PushFront ==
  ASSUME TypeOK, IndexInv, PushInPlace \/ PushAndGrow
  PROVE  Front(size)' = Append(Front(size), Head(pending))
<1>1. /\ capacity \in Nat \ {0} /\ size \in 0..capacity /\ size \in Nat
      /\ readerIndex \in 0..capacity-1 /\ headerIndex \in 0..capacity-1
      /\ buffer \in [0..capacity-1 -> Byte] /\ size' = size + 1
  BY CapacityAssumption DEF TypeOK, PushInPlace, PushAndGrow
<1>2. Head(pending) \in Byte
  BY DEF PushInPlace, PushAndGrow, Idle, TypeOK
<1>3. Front(size) \in Seq(Byte) /\ Len(Front(size)) = size
  BY <1>1, FrontType
<1>4. ASSUME NEW i \in 1..size
      PROVE  Front(size)'[i] = Front(size)[i]
  <2>1. Front(size)[i] = buffer[Advance(readerIndex, i - 1)]
    BY DEF Front
  <2>2. i - 1 \in 0..capacity /\ i - 1 < size
    BY <1>1
  <2>3. /\ Advance(readerIndex, i - 1) \in 0..capacity-1
        /\ Advance(readerIndex, i - 1) = IF readerIndex + (i - 1) < capacity
             THEN readerIndex + (i - 1) ELSE readerIndex + (i - 1) - capacity
    BY <1>1, <2>2, AdvanceValue
  <2>4. CASE PushInPlace
    <3>1. headerIndex = IF readerIndex + size < capacity
                        THEN readerIndex + size ELSE readerIndex + size - capacity
      BY <1>1, AdvanceValue DEF IndexInv
    <3>2. size < capacity
      BY <1>1, <2>4 DEF PushInPlace
    <3>3. Advance(readerIndex, i - 1) # headerIndex
      BY <1>1, <2>2, <2>3, <3>1, <3>2
    <3>4. Front(size)'[i] = buffer'[Advance(readerIndex, i - 1)]
      BY <1>1, <2>4 DEF Front, Advance, PushInPlace
    <3> QED
      BY <1>1, <2>1, <2>3, <2>4, <3>3, <3>4 DEF PushInPlace
  <2>5. CASE PushAndGrow
    <3>1. size = capacity /\ capacity' = capacity * 2 /\ readerIndex' = 0
      BY <2>5 DEF PushAndGrow
    <3>2. Front(size)'[i] = buffer'[(0 + (i - 1)) % (capacity * 2)]
      BY <1>1, <3>1 DEF Front, Advance
    <3>3. (0 + (i - 1)) % (capacity * 2) = i - 1
      BY <1>1, <3>1
    <3>4. i - 1 \in 0..capacity*2-1 /\ i - 1 # size
      BY <1>1, <3>1
    <3>5. buffer'[i - 1] = Resized(capacity * 2)[i - 1]
      BY <2>5, <3>4 DEF PushAndGrow, Resized
    <3>6. Resized(capacity * 2)[i - 1] = buffer[Advance(readerIndex, i - 1)]
      BY <2>2, <3>4 DEF Resized
    <3> QED
      BY <2>1, <3>2, <3>3, <3>5, <3>6
  <2> QED
    BY <2>4, <2>5
<1>5. Front(size)'[size + 1] = Head(pending)
  <2>1. CASE PushInPlace
    <3>1. Front(size)'[size + 1] = buffer'[Advance(readerIndex, (size + 1) - 1)]
      BY <1>1, <2>1 DEF Front, Advance, PushInPlace
    <3>2. (size + 1) - 1 = size
      BY <1>1
    <3> QED
      BY <1>1, <2>1, <3>1, <3>2 DEF PushInPlace, IndexInv
  <2>2. CASE PushAndGrow
    <3>1. size = capacity /\ capacity' = capacity * 2 /\ readerIndex' = 0
      BY <2>2 DEF PushAndGrow
    <3>2. Front(size)'[size + 1] = buffer'[(0 + ((size + 1) - 1)) % (capacity * 2)]
      BY <1>1, <3>1 DEF Front, Advance
    <3>3. (0 + ((size + 1) - 1)) % (capacity * 2) = size
      BY <1>1, <3>1
    <3>4. size \in 0..capacity*2-1
      BY <1>1, <3>1
    <3>5. buffer'[size] = Head(pending)
      BY <2>2, <3>4 DEF PushAndGrow, Resized
    <3> QED
      BY <3>2, <3>3, <3>5
  <2> QED
    BY <2>1, <2>2
<1>6. Front(size)' \in Seq(Byte) /\ Len(Front(size)') = size + 1
  <2>1. \A i \in 1..size : Front(size)[i] \in Byte
    BY <1>3, ElementOfSeq
  <2>2. \A i \in 1..size+1 : Front(size)'[i] \in Byte
    BY <1>1, <1>2, <1>4, <1>5, <2>1
  <2>3. Front(size)' \in [1..size+1 -> Byte]
    BY <1>1, <2>2 DEF Front
  <2> QED
    BY <1>1, <2>3
<1>7. /\ Append(Front(size), Head(pending)) \in Seq(Byte)
      /\ Len(Append(Front(size), Head(pending))) = size + 1
      /\ Append(Front(size), Head(pending))[size + 1] = Head(pending)
      /\ \A i \in 1..size : Append(Front(size), Head(pending))[i] = Front(size)[i]
  BY <1>1, <1>2, <1>3
<1>8. \A i \in 1..size+1 : Front(size)'[i] = Append(Front(size), Head(pending))[i]
  BY <1>1, <1>4, <1>5, <1>7
<1> QED
  BY <1>6, <1>7, <1>8, SeqEqual

-----------------------------------------------------------------------------
LEMMA InitRefines == Init => Queue!Init
<1> SUFFICES ASSUME Init PROVE Queue!Init
  OBVIOUS
<1>1. Front(size) = <<>>
  BY DEF Init, Front
<1> QED
  BY <1>1 DEF Init, Queue!Init, Returns, Queue!Returns

(***************************************************************************)
(* Every step of the ring is a step of the queue: the one of the same      *)
(* name, or PushByte for the two ways to push.                             *)
(***************************************************************************)
LEMMA NextRefines ==
  TypeOK /\ IndexInv /\ [Next]_vars => [Queue!Next]_(Queue!queueVars)
<1> SUFFICES ASSUME TypeOK, IndexInv, [Next]_vars
             PROVE  [Queue!Next]_(Queue!queueVars)
  OBVIOUS
<1>c. /\ capacity \in Nat \ {0} /\ size \in 0..capacity /\ size \in Nat
      /\ Front(size) \in Seq(Byte) /\ Len(Front(size)) = size
  BY CapacityAssumption, FrontType DEF TypeOK
<1>e. Front(size) = <<>> <=> size = 0
  BY <1>c
<1>u. UNCHANGED ring => UNCHANGED Front(size)
  BY DEF ring, Front, Advance
<1> USE DEF Idle, Queue!Idle, Returns, Throws, Queue!Returns, Queue!Throws
<1>1. ASSUME NEW bytes \in Chunks, StartWrite(bytes)
      PROVE  Queue!StartWrite(bytes)
  BY <1>1, <1>u DEF StartWrite, ring, Queue!StartWrite
<1>2. CASE PushInPlace
  <2>1. Len(Front(size)) < capacity
    BY <1>2, <1>c DEF PushInPlace
  <2>2. Queue!PushByte
    BY <1>2, <2>1, PushFront DEF PushInPlace, Queue!PushByte
  <2> QED
    BY <2>2 DEF Queue!Next
<1>3. CASE PushAndGrow
  <2>1. Len(Front(size)) = capacity /\ capacity * 2 <= MaxCapacity
    BY <1>3, <1>c DEF PushAndGrow, CanResize
  <2>2. Queue!PushByte
    BY <1>3, <2>1, PushFront DEF PushAndGrow, Queue!PushByte
  <2> QED
    BY <2>2 DEF Queue!Next
<1>4. CASE PushRefused
  <2>1. Len(Front(size)) = capacity /\ capacity * 2 > MaxCapacity
    BY <1>4, <1>c, CapacityAssumption DEF PushRefused, CanResize
  <2>2. Queue!PushRefused
    BY <1>4, <1>u, <2>1 DEF PushRefused, ring, Queue!PushRefused
  <2> QED
    BY <2>2 DEF Queue!Next
<1>5. CASE Pop
  <2>1. ASSUME size = 0 PROVE Queue!Pop
    <3>1. UNCHANGED ring
      BY <1>5, <2>1 DEF Pop, ring, indices
    <3> QED
      BY <1>5, <1>e, <1>u, <2>1, <3>1 DEF Pop, ring, Queue!Pop
  <2>2. ASSUME size # 0 PROVE Queue!Pop
    <3>1. 1 \in 0..size
      BY <1>c, <2>2
    <3>2. readerIndex' = Advance(readerIndex, 1) /\ size' = size - 1
      BY <1>5, <2>2 DEF Pop, NextIndex, Advance
    <3>3. Front(size)' = Drop(Front(size), 1)
      BY <1>5, <3>1, <3>2, DropFront DEF Pop
    <3>4. Tail(Front(size)) = SubSeq(Front(size), 2, Len(Front(size)))
      BY <1>c, <1>e, <2>2, TailIsSubSeq
    <3>5. Front(size)' = Tail(Front(size))
      BY <3>3, <3>4 DEF Drop
    <3>6. Front(1) = Queue!Take(Front(size), 1)
      BY <3>1, TakeFront DEF Take, Queue!Take
    <3> QED
      BY <1>5, <1>e, <2>2, <3>5, <3>6 DEF Pop, Queue!Pop
  <2>3. Queue!Pop
    BY <2>1, <2>2
  <2> QED
    BY <2>3 DEF Queue!Next
<1>6. CASE Peek
  <2>1. size # 0 => Front(1) = Queue!Take(Front(size), 1)
    <3>1. size # 0 => 1 \in 0..size
      BY <1>c
    <3> QED
      BY <3>1, TakeFront DEF Take, Queue!Take
  <2>2. Queue!Peek
    BY <1>6, <1>e, <1>u, <2>1 DEF Peek, ring, Queue!Peek
  <2> QED
    BY <2>2 DEF Queue!Next
<1>7. CASE Clear
  <2>1. Front(size)' = <<>>
    BY <1>7 DEF Clear, Front
  <2>2. Queue!Clear
    BY <1>7, <2>1 DEF Clear, Queue!Clear
  <2> QED
    BY <2>2 DEF Queue!Next
<1>8. ASSUME NEW n \in 0..MaxCapacity + 1, ClearCount(n)
      PROVE  Queue!ClearCount(n)
  <2>1. CASE n > size
    <3>1. UNCHANGED ring
      BY <1>8, <2>1 DEF ClearCount, ring, indices
    <3> QED
      BY <1>8, <1>c, <1>u, <2>1, <3>1 DEF ClearCount, ring, Queue!ClearCount
  <2>2. CASE ~(n > size)
    <3>1. n \in 0..size
      BY <1>c, <2>2
    <3>2. Front(size)' = Queue!Drop(Front(size), n)
      BY <1>8, <2>2, <3>1, DropFront DEF ClearCount, Drop, Queue!Drop
    <3> QED
      BY <1>8, <1>c, <2>2, <3>2 DEF ClearCount, Queue!ClearCount
  <2> QED
    BY <2>1, <2>2
<1>9. ASSUME NEW n \in 0..MaxCapacity + 1, Read(n)
      PROVE  Queue!Read(n)
  <2> DEFINE m == IF n <= size THEN n ELSE size
  <2>1. m \in 0..size
    BY <1>c
  <2>2. ret' = Returns("read", n, Front(m)) /\ UNCHANGED <<buffer, capacity, pending>>
          /\ readerIndex' = Advance(readerIndex, m) /\ size' = size - m /\ Idle
    BY <1>9 DEF Read
  <2> HIDE DEF m
  <2>3. Front(size)' = Queue!Drop(Front(size), m)
    BY <2>1, <2>2, DropFront DEF Drop, Queue!Drop
  <2>4. Front(m) = Queue!Take(Front(size), m)
    BY <2>1, TakeFront DEF Take, Queue!Take
  <2> QED
    BY <1>c, <2>2, <2>3, <2>4 DEF Queue!Read, m
<1>v. \A n \in IntWidths : IsReadIndexValid(readerIndex, n) <=> Queue!CanPeekInt(n)
  BY <1>c, ReadIndexValid DEF IntWidths, Queue!CanPeekInt, Queue!IntReadable
<1>w. \A n \in IntWidths : IsReadIndexValid(readerIndex, n) => n \in 0..size
  BY <1>c, <1>v DEF IntWidths, Queue!CanPeekInt, Queue!IntReadable
<1>10. ASSUME NEW n \in IntWidths, PeekInt(n)
       PROVE  Queue!PeekInt(n)
  <2>1. IsReadIndexValid(readerIndex, n) => Front(n) = Queue!Take(Front(size), n)
    BY <1>w, TakeFront DEF Take, Queue!Take
  <2> QED
    BY <1>10, <1>u, <1>v, <2>1 DEF PeekInt, ring, Queue!PeekInt
<1>11. ASSUME NEW n \in IntWidths, ReadInt(n)
       PROVE  Queue!ReadInt(n)
  <2>1. CASE IsReadIndexValid(readerIndex, n)
    <3>1. n \in 0..size
      BY <1>w, <2>1
    <3>2. Front(n) = Queue!Take(Front(size), n)
      BY <3>1, TakeFront DEF Take, Queue!Take
    <3>3. Front(size)' = Queue!Drop(Front(size), n)
      BY <1>11, <2>1, <3>1, DropFront DEF ReadInt, Drop, Queue!Drop
    <3> QED
      BY <1>11, <1>v, <2>1, <3>2, <3>3 DEF ReadInt, Queue!ReadInt
  <2>2. CASE ~IsReadIndexValid(readerIndex, n)
    <3>1. UNCHANGED ring
      BY <1>11, <2>2 DEF ReadInt, ring, indices
    <3> QED
      BY <1>11, <1>u, <1>v, <2>2, <3>1 DEF ReadInt, ring, Queue!ReadInt
  <2> QED
    BY <2>1, <2>2
<1>12. CASE UNCHANGED vars
  <2>1. UNCHANGED ring
    BY <1>12 DEF vars, ring
  <2> QED
    BY <1>12, <1>u, <2>1 DEF vars, ring, Queue!queueVars
<1>13. Chunks = Queue!Chunks /\ IntWidths = Queue!IntWidths
  BY DEF Chunks, Queue!Chunks, IntWidths, Queue!IntWidths
<1> QED
  BY <1>1, <1>2, <1>3, <1>4, <1>5, <1>6, <1>7, <1>8, <1>9, <1>10, <1>11, <1>12,
     <1>13
     DEF Next, Queue!Next

(***************************************************************************)
(* The ring buffer is a first-in first-out queue of bytes: what its calls  *)
(* return and throw, through wrap-around and growth, is what ByteQueue     *)
(* says, for every capacity, maximum and sequence of calls.                *)
(***************************************************************************)
THEOREM RingImplementsQueue == Spec => ImplementsByteQueue
<1>1. TypeOK /\ IndexInv /\ [Next]_vars => (TypeOK /\ IndexInv)'
  BY NextInv
<1> QED
  BY InitInv, InitRefines, <1>1, NextRefines, PTL
     DEF Spec, ImplementsByteQueue, Queue!Spec

=============================================================================
