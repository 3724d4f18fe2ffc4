------------------------- MODULE ClientPacketProofs -------------------------
(***************************************************************************)
(* The properties of MCBitConverter for every word of every width, every   *)
(* number of values of a byte and hosts of both kinds: integers survive    *)
(* the conversions, and of what was put into a packet a client finds in    *)
(* the message the header and all of the body but its last 13 bytes.       *)
(***************************************************************************)
EXTENDS MCBitConverter, BitConverterProofs

WordInv == width \in Widths /\ word \in Words(width)

LEMMA WordIsWord == Spec => []WordInv
<1>1. Init => WordInv
  BY DEF Init, WordInv
<1>2. WordInv /\ [Convert]_vars => WordInv'
  BY ToNetworkReverses DEF WordInv, Convert, vars
<1> QED
  BY <1>1, <1>2, PTL DEF Spec

(***************************************************************************)
(* toNetwork keeps the width, and its result lies in memory with the most  *)
(* significant byte first on every host (bit_converter.hpp:9-65).          *)
(***************************************************************************)
THEOREM NetworkOrder == Spec => []NetworkOrderInMemory
<1>1. WordInv => NetworkOrderInMemory
  <2> SUFFICES ASSUME WordInv PROVE NetworkOrderInMemory
    OBVIOUS
  <2> DEFINE u == ToNetwork(word, width)
  <2>1. /\ width \in Widths /\ width \in 0..8 /\ word \in Words(width)
        /\ u \in Words(width)
        /\ HostBigEndian => u = word
        /\ ~HostBigEndian => Reversed(u, word, width)
    BY ToNetworkReverses DEF WordInv, Widths
  <2> HIDE DEF u
  <2>2. CASE HostBigEndian
    BY <2>1, <2>2 DEF NetworkOrderInMemory, InMemory, u
  <2>3. CASE ~HostBigEndian
    <3>1. /\ ToBytes(u, width) \in [1..width -> Digits]
          /\ ToBytes(word, width) \in [1..width -> Digits]
      BY <2>1, ToBytesType
    <3>2. /\ Reverse(ToBytes(u, width)) \in [1..width -> Digits]
          /\ \A i \in 1..width : Reverse(ToBytes(u, width))[i] = ToBytes(u, width)[width - i + 1]
      BY <2>1, <3>1, ReverseDigits
    <3>3. ASSUME NEW i \in 1..width
          PROVE  Reverse(ToBytes(u, width))[i] = ToBytes(word, width)[i]
      <4>1. /\ width - i + 1 \in 1..width /\ width - (width - i + 1) = i - 1
            /\ i - 1 \in 0..width-1 /\ width - 1 - (i - 1) = width - i
        BY <2>1
      <4>2. ToBytes(u, width)[width - i + 1] = Digit(u, width - (width - i + 1))
        BY <4>1 DEF ToBytes
      <4>3. Digit(u, i - 1) = Digit(word, width - 1 - (i - 1))
        BY <2>1, <2>3, <4>1 DEF Reversed
      <4>4. ToBytes(word, width)[i] = Digit(word, width - i)
        BY DEF ToBytes
      <4> QED
        BY <3>2, <4>1, <4>2, <4>3, <4>4
    <3>4. Reverse(ToBytes(u, width)) = ToBytes(word, width)
      <4> DEFINE r == Reverse(ToBytes(u, width))
                 b == ToBytes(word, width)
      <4>1. /\ r \in [1..width -> Digits] /\ b \in [1..width -> Digits]
            /\ \A i \in 1..width : r[i] = b[i]
        BY <3>1, <3>2, <3>3
      <4> HIDE DEF r, b
      <4>2. /\ r = [i \in 1..width |-> r[i]]
            /\ b = [i \in 1..width |-> b[i]]
        BY <4>1
      <4>3. r = b
        BY <4>1, <4>2, Zenon
      <4> QED
        BY <4>3 DEF r, b
    <3> QED
      BY <2>1, <2>3, <3>4 DEF NetworkOrderInMemory, InMemory, u
  <2> QED
    BY <2>2, <2>3
<1> QED
  BY WordIsWord, <1>1, PTL

(***************************************************************************)
(* toHost undoes toNetwork for 2, 4 and 8 bytes (bit_converter.hpp:67-95). *)
(***************************************************************************)
THEOREM HostUndoes == Spec => []HostUndoesNetwork
<1>1. WordInv => HostUndoesNetwork
  BY HostOfNetwork DEF WordInv, HostUndoesNetwork
<1> QED
  BY WordIsWord, <1>1, PTL

(***************************************************************************)
(* getInt16 and getInt32 find the value that write(uint16_t) or            *)
(* write(uint32_t) was given (ring_buffer.hpp:187-209, 247-268).           *)
(***************************************************************************)
THEOREM BytesAreUndone == Spec => []BytesRoundTrip
<1>1. WordInv => BytesRoundTrip
  BY BytesOfWord DEF WordInv, BytesRoundTrip
<1> QED
  BY WordIsWord, <1>1, PTL

-----------------------------------------------------------------------------
(* A packet field by field.                                                *)
Packets ==
  [serviceId : Words(2), msgId : Words(4), msgSeq : Words(2), errorCode : Words(2),
   stageIndex : Digits, body : {b \in Seq(Digits) : Len(b) \in Words(2)}]

LEMMA WordsWiden ==
  ASSUME NEW w \in 0..8, NEW v \in Words(w) PROVE v \in Words(8)
<1> DEFINE P == Place[w]
           Q == Place[8 - w]
<1>1. P \in Nat \ {0} /\ Q \in Nat \ {0} /\ Place[8] = P * Q
  <2>1. 8 \in 0..8 /\ w \in 0..8 /\ 8 - w \in 0..8
    OBVIOUS
  <2>2. Place[8] = Place[w] * Place[8 - w]
    BY <2>1, PlaceSplit, Zenon
  <2> QED
    BY <2>1, <2>2, PlaceType
<1> HIDE DEF P, Q
<1>2. P <= P * Q
  BY <1>1
<1> QED
  BY <1>1, <1>2, WordsType DEF Words, P

LEMMA PacketOfType ==
  ASSUME NEW w \in Widths, NEW v \in Words(w)
  PROVE  PacketOf(v) \in Packets
<1>1. v \in Words(8) /\ v \in Nat
  BY WordsWiden, WordsType DEF Widths
<1>2. /\ Place[2] \in Nat \ {0} /\ Place[4] \in Nat \ {0} /\ Place[5] \in Nat \ {0}
      /\ Radix \in Nat \ {0}
  BY PlaceType, RadixAssumption
<1>3. v % Place[2] \in Words(2) /\ v % Place[4] \in Words(4)
  BY <1>1, <1>2 DEF Words
<1>4. v \div Place[2] \in Nat /\ v \div Place[4] \in Nat /\ v \div Place[5] \in Nat
  BY <1>1, <1>2
<1>5. /\ (v \div Place[2]) % Place[2] \in Words(2)
      /\ (v \div Place[4]) % Place[2] \in Words(2)
  BY <1>2, <1>4 DEF Words
<1>6. (v \div Place[5]) % Radix \in Digits
  BY <1>2, <1>4 DEF Digits
<1>7. v \div Place[6] \in Words(2)
  <2>1. ShiftRight(v, 6) \in Words(8 - 6)
    BY <1>1, ShiftRightWord
  <2> QED
    BY <2>1 DEF ShiftRight
<1> DEFINE n == (v \div Place[4]) % Place[2]
           b == [i \in 1..n |-> (v + i * i) % Radix]
<1>8. b \in Seq(Digits) /\ Len(b) = n
  <2>1. n \in Nat
    BY <1>5, PlaceType DEF Words
  <2> HIDE DEF n
  <2>2. \A i \in 1..n : (v + i * i) % Radix \in Digits
    <3> TAKE i \in 1..n
    <3>1. v + i * i \in Nat
      BY <1>1, <2>1
    <3> QED
      BY <1>2, <3>1 DEF Digits
  <2>3. b \in [1..n -> Digits]
    BY <2>2
  <2> QED
    BY <2>1, <2>3, SeqOfDigits
<1> HIDE DEF b
<1> QED
  BY <1>3, <1>5, <1>6, <1>7, <1>8 DEF PacketOf, Packets, b

(* What is written as a converted integer is read as one.                  *)
LEMMA WrittenType ==
  ASSUME NEW w \in RingWidths, NEW v \in Words(w)
  PROVE  Written(v, w) \in Seq(Digits) /\ Len(Written(v, w)) = w
<1>1. w \in Widths /\ w \in Nat
  BY DEF RingWidths, Widths
<1>2. Written(v, w) \in [1..w -> Digits]
  BY <1>1, ToNetworkReverses, ToBytesType DEF Written
<1> QED
  BY <1>1, <1>2, SeqOfDigits

LEMMA ReadWritten ==
  ASSUME NEW w \in RingWidths, NEW v \in Words(w), NEW s \in Seq(Digits), NEW k \in Nat,
         At(s, k, Written(v, w))
  PROVE  IntAt(s, k + 1, w) = v
<1>1. w \in Widths /\ w \in Nat /\ ToNetwork(v, w) \in Words(w)
  BY ToNetworkReverses DEF RingWidths, Widths
<1>2. SubSeq(s, k + 1, k + w) = Written(v, w)
  <2>1. Written(v, w) \in Seq(Digits) /\ Len(Written(v, w)) = w
    BY WrittenType
  <2>2. SubSeq(s, k + 1, k + Len(Written(v, w))) = Written(v, w)
    BY <2>1, AtSubSeq
  <2> QED
    BY <2>1, <2>2
<1>3. k + 1 + w - 1 = k + w
  BY <1>1
<1>4. FromBytes(Written(v, w)) = ToNetwork(v, w)
  BY <1>1, BytesOfWord DEF Written
<1> QED
  BY <1>1, <1>2, <1>3, <1>4, HostOfNetwork DEF IntAt

(* The packet lies in the buffer as it is written.                         *)
LEMMA PacketLayout ==
  ASSUME NEW p \in Packets
  PROVE  LET s == Packet(p)
         IN  /\ s \in Seq(Digits) /\ Len(s) = PacketHeader + Len(p.body)
             /\ At(s, 0, Written(Len(p.body), 2)) /\ At(s, 2, Written(p.serviceId, 2))
             /\ At(s, 4, Written(p.msgId, 4)) /\ At(s, 8, Written(p.msgSeq, 2))
             /\ At(s, 10, Written(p.errorCode, 2)) /\ At(s, 12, <<p.stageIndex>>)
             /\ At(s, 13, p.body)
<1> DEFINE f1 == Written(Len(p.body), 2)
           f2 == Written(p.serviceId, 2)
           f3 == Written(p.msgId, 4)
           f4 == Written(p.msgSeq, 2)
           f5 == Written(p.errorCode, 2)
           f6 == <<p.stageIndex>>
           f7 == p.body
           s2 == f1 \o f2
           s3 == s2 \o f3
           s4 == s3 \o f4
           s5 == s4 \o f5
           s6 == s5 \o f6
           s7 == s6 \o f7
<1>1. /\ f1 \in Seq(Digits) /\ f2 \in Seq(Digits) /\ f3 \in Seq(Digits)
      /\ f4 \in Seq(Digits) /\ f5 \in Seq(Digits) /\ f6 \in Seq(Digits)
      /\ f7 \in Seq(Digits)
      /\ Len(f1) = 2 /\ Len(f2) = 2 /\ Len(f3) = 4 /\ Len(f4) = 2 /\ Len(f5) = 2
      /\ Len(f6) = 1
  BY WrittenType DEF Packets, RingWidths
<1>2. Packet(p) = s7 /\ f7 = p.body
  BY DEF Packet
<1> HIDE DEF f1, f2, f3, f4, f5, f6, f7
<1> DEFINE Grown(s, a, f) ==
      /\ s \in Seq(Digits)
      /\ Len(s) = Len(a) + Len(f)
      /\ At(s, Len(a), f)
      /\ \A g \in Seq(Digits), k \in Nat : At(a, k, g) => At(s, k, g)
<1>3. Grown(s2, f1, f2)
  BY <1>1, AtConcat, Zenon
<1> HIDE DEF s2
<1>4. Grown(s3, s2, f3)
  BY <1>1, <1>3, AtConcat, Zenon
<1> HIDE DEF s3
<1>5. Grown(s4, s3, f4)
  BY <1>1, <1>4, AtConcat, Zenon
<1> HIDE DEF s4
<1>6. Grown(s5, s4, f5)
  BY <1>1, <1>5, AtConcat, Zenon
<1> HIDE DEF s5
<1>7. Grown(s6, s5, f6)
  BY <1>1, <1>6, AtConcat, Zenon
<1> HIDE DEF s6
<1>8. Grown(s7, s6, f7)
  BY <1>1, <1>7, AtConcat, Zenon
<1> HIDE DEF s7
<1>9. /\ 0 \in Nat /\ 2 \in Nat /\ 4 \in Nat /\ 8 \in Nat /\ 10 \in Nat /\ 12 \in Nat
      /\ At(f1, 0, f1)
      /\ Len(s2) = 4 /\ Len(s3) = 8 /\ Len(s4) = 10 /\ Len(s5) = 12 /\ Len(s6) = 13
  BY <1>1, <1>3, <1>4, <1>5, <1>6, <1>7 DEF At
<1>10. /\ s7 \in Seq(Digits) /\ Len(s7) = 13 + Len(f7)
       /\ At(s7, 2, f2) /\ At(s7, 4, f3) /\ At(s7, 8, f4) /\ At(s7, 10, f5)
       /\ At(s7, 12, f6) /\ At(s7, 13, f7) /\ At(s7, 0, f1)
  BY <1>1, <1>3, <1>4, <1>5, <1>6, <1>7, <1>8, <1>9
<1> QED
  BY <1>2, <1>10 DEF PacketHeader, f1, f2, f3, f4, f5, f6

(* A sequence is cut in two, and a field that ends before the cut is in    *)
(* the first part.                                                         *)
LEMMA Cut ==
  ASSUME NEW s \in Seq(Digits), NEW n \in 0..Len(s)
  PROVE  LET front == SubSeq(s, 1, n)
             rest  == SubSeq(s, n + 1, Len(s))
         IN  /\ front \in Seq(Digits) /\ Len(front) = n
             /\ rest \in Seq(Digits) /\ Len(rest) = Len(s) - n
             /\ \A i \in 1..n : front[i] = s[i]
             /\ \A i \in 1..Len(s) - n : rest[i] = s[n + i]
<1>1. n \in Int /\ Len(s) \in Int /\ \A i \in 1..Len(s) : s[i] \in Digits
  OBVIOUS
<1>2. /\ SubSeq(s, 1, n) \in Seq(Digits) /\ Len(SubSeq(s, 1, n)) = n
      /\ \A i \in 1..n : SubSeq(s, 1, n)[i] = s[i]
  BY <1>1, SubSeqProperties
<1>3. /\ SubSeq(s, n + 1, Len(s)) \in Seq(Digits)
      /\ Len(SubSeq(s, n + 1, Len(s))) = Len(s) - n
      /\ \A i \in 1..Len(s) - n : SubSeq(s, n + 1, Len(s))[i] = s[n + i]
  BY <1>1, SubSeqProperties
<1> QED
  BY <1>2, <1>3

LEMMA Join ==
  ASSUME NEW a \in Seq(Digits), NEW b \in Seq(Digits), NEW c \in Seq(Digits),
         Len(c) = Len(a) + Len(b),
         \A i \in 1..Len(a) : a[i] = c[i],
         \A i \in 1..Len(b) : b[i] = c[Len(a) + i]
  PROVE  a \o b = c
<1> DEFINE t == a \o b
<1>1. /\ t \in Seq(Digits) /\ Len(t) = Len(c)
      /\ \A i \in 1..Len(c) : t[i] = IF i <= Len(a) THEN a[i] ELSE b[i - Len(a)]
  BY ConcatProperties
<1> HIDE DEF t
<1>2. \A i \in 1..Len(t) : t[i] = c[i]
  <2> SUFFICES ASSUME NEW i \in 1..Len(c) PROVE t[i] = c[i]
    BY <1>1
  <2>1. CASE i <= Len(a)
    BY <1>1, <2>1
  <2>2. CASE ~(i <= Len(a))
    <3>1. i - Len(a) \in 1..Len(b) /\ Len(a) + (i - Len(a)) = i
      BY <2>2
    <3> QED
      BY <1>1, <2>2, <3>1
  <2> QED
    BY <2>1, <2>2
<1>3. t = c
  BY <1>1, <1>2, SeqEqual
<1> QED
  BY <1>3 DEF t

LEMMA ReadInFront ==
  ASSUME NEW w \in RingWidths, NEW v \in Words(w), NEW s \in Seq(Digits),
         NEW n \in 0..Len(s), NEW k \in Nat, k + w <= n, At(s, k, Written(v, w))
  PROVE  IntAt(SubSeq(s, 1, n), k + 1, w) = v
<1> DEFINE front == SubSeq(s, 1, n)
           f == Written(v, w)
<1>1. /\ front \in Seq(Digits) /\ Len(front) = n
      /\ \A i \in 1..n : front[i] = s[i]
  BY Cut
<1>2. f \in Seq(Digits) /\ Len(f) = w /\ w \in Nat /\ At(s, k, f)
  <2>1. w \in Nat
    BY DEF RingWidths
  <2> QED
    BY <2>1, WrittenType
<1> HIDE DEF front, f
<1>3. \A i \in 1..w : front[k + i] = f[i]
  <2> TAKE i \in 1..w
  <2>1. k + i \in 1..n /\ n \in Nat
    BY <1>2
  <2> QED
    BY <1>1, <1>2, <2>1 DEF At
<1>4. At(front, k, f)
  BY <1>1, <1>2, <1>3 DEF At
<1> QED
  BY <1>1, <1>4, ReadWritten DEF front, f

(* What is made of a packet the scratch buffer takes.                      *)
LEMMA MessageLayout ==
  ASSUME NEW p \in Packets, Len(p.body) >= PacketHeader
  PROVE  LET packet  == Packet(p)
             message == SubSeq(packet, 1, Len(p.body))
             behind  == SubSeq(packet, Len(p.body) + 1, Len(packet))
         IN  /\ ReadHeader(message) = HeaderOf(p)
             /\ Len(behind) = PacketHeader
             /\ SubSeq(message, PacketHeader + 1, Len(message)) \o behind = p.body
<1> DEFINE n == Len(p.body)
           s == Packet(p)
           front == SubSeq(s, 1, n)
           rest == SubSeq(s, n + 1, Len(s))
           middle == SubSeq(front, 13 + 1, Len(front))
<1>1. /\ p.serviceId \in Words(2) /\ p.msgId \in Words(4) /\ p.msgSeq \in Words(2)
      /\ p.errorCode \in Words(2) /\ p.stageIndex \in Digits
      /\ p.body \in Seq(Digits) /\ n \in Words(2) /\ n \in Nat /\ n >= 13
      /\ 2 \in RingWidths /\ 4 \in RingWidths
  BY DEF Packets, RingWidths, PacketHeader
<1>2. /\ s \in Seq(Digits) /\ Len(s) = 13 + n
      /\ At(s, 0, Written(n, 2)) /\ At(s, 2, Written(p.serviceId, 2))
      /\ At(s, 4, Written(p.msgId, 4)) /\ At(s, 8, Written(p.msgSeq, 2))
      /\ At(s, 10, Written(p.errorCode, 2)) /\ At(s, 12, <<p.stageIndex>>)
      /\ At(s, 13, p.body)
  BY PacketLayout DEF PacketHeader
<1> HIDE DEF s, n
<1>3. /\ front \in Seq(Digits) /\ Len(front) = n /\ \A i \in 1..n : front[i] = s[i]
      /\ rest \in Seq(Digits) /\ Len(rest) = 13 /\ \A i \in 1..13 : rest[i] = s[n + i]
  <2>1. n \in 0..Len(s) /\ Len(s) - n = 13
    BY <1>1, <1>2
  <2> QED
    BY <1>2, <2>1, Cut
<1> HIDE DEF front, rest
<1>4. /\ IntAt(front, 1, 2) = n /\ IntAt(front, 3, 2) = p.serviceId
      /\ IntAt(front, 5, 4) = p.msgId /\ IntAt(front, 9, 2) = p.msgSeq
      /\ IntAt(front, 11, 2) = p.errorCode
  <2>1. n \in 0..Len(s)
    BY <1>1, <1>2
  <2>2. IntAt(front, 0 + 1, 2) = n
    <3>1. 0 \in Nat /\ 0 + 2 <= n /\ 2 \in RingWidths /\ n \in Words(2)
      BY <1>1
    <3> QED
      BY <1>2, <2>1, <3>1, ReadInFront DEF front
  <2>3. IntAt(front, 2 + 1, 2) = p.serviceId
    <3>1. 2 \in Nat /\ 2 + 2 <= n /\ 2 \in RingWidths /\ p.serviceId \in Words(2)
      BY <1>1
    <3> QED
      BY <1>2, <2>1, <3>1, ReadInFront DEF front
  <2>4. IntAt(front, 4 + 1, 4) = p.msgId
    <3>1. 4 \in Nat /\ 4 + 4 <= n /\ 4 \in RingWidths /\ p.msgId \in Words(4)
      BY <1>1
    <3> QED
      BY <1>2, <2>1, <3>1, ReadInFront DEF front
  <2>5. IntAt(front, 8 + 1, 2) = p.msgSeq
    <3>1. 8 \in Nat /\ 8 + 2 <= n /\ 2 \in RingWidths /\ p.msgSeq \in Words(2)
      BY <1>1
    <3> QED
      BY <1>2, <2>1, <3>1, ReadInFront DEF front
  <2>6. IntAt(front, 10 + 1, 2) = p.errorCode
    <3>1. 10 \in Nat /\ 10 + 2 <= n /\ 2 \in RingWidths /\ p.errorCode \in Words(2)
      BY <1>1
    <3> QED
      BY <1>2, <2>1, <3>1, ReadInFront DEF front
  <2> QED
    BY <2>2, <2>3, <2>4, <2>5, <2>6
<1>5. front[13] = p.stageIndex
  <2>1. s[13] = p.stageIndex
    BY <1>2 DEF At
  <2> QED
    BY <1>1, <1>3, <2>1
<1>6. ReadHeader(front) = HeaderOf(p)
  BY <1>4, <1>5, Zenon DEF ReadHeader, HeaderOf, PacketHeader, n
<1>7. middle \o rest = p.body
  <2>1. 13 \in 0..Len(front) /\ Len(front) - 13 = n - 13
    BY <1>1, <1>3
  <2>2. /\ middle \in Seq(Digits) /\ Len(middle) = n - 13
        /\ \A i \in 1..n - 13 : middle[i] = front[13 + i]
    BY <1>3, <2>1, Cut
  <2> HIDE DEF middle
  <2>3. /\ Len(p.body) = n /\ \A i \in 1..n : s[13 + i] = p.body[i]
    BY <1>2 DEF At, n
  <2>4. ASSUME NEW i \in 1..Len(middle) PROVE middle[i] = p.body[i]
    <3>1. i \in 1..n - 13 /\ 13 + i \in 1..n /\ i \in 1..n
      BY <1>1, <2>2
    <3> QED
      BY <1>3, <2>2, <2>3, <3>1
  <2>5. ASSUME NEW i \in 1..Len(rest) PROVE rest[i] = p.body[Len(middle) + i]
    <3>1. i \in 1..13 /\ Len(middle) = n - 13 /\ n \in Nat /\ n >= 13
      BY <1>1, <1>3, <2>2
    <3>2. Len(middle) + i \in 1..n /\ 13 + (Len(middle) + i) = n + i
      BY <3>1
    <3> QED
      BY <1>3, <2>3, <3>1, <3>2
  <2>6. Len(p.body) = Len(middle) + Len(rest)
    BY <1>1, <1>3, <2>2, <2>3
  <2> QED
    BY <1>1, <1>3, <2>2, <2>4, <2>5, <2>6, Join
<1> QED
  BY <1>3, <1>6, <1>7 DEF s, n, front, rest, PacketHeader

(***************************************************************************)
(* A client that converts as StreamParser does reads the header of every   *)
(* message as it was given to makeClientMessageBody, and all of the body   *)
(* but its last 13 bytes; those the call writes behind the message, which  *)
(* has bodySize bytes only (router_socket.cpp:93-123).                     *)
(***************************************************************************)
THEOREM MessagesAreReadAsGiven == Spec => []MessageReadAsGiven
<1>1. WordInv => MessageReadAsGiven
  <2> DEFINE p == PacketOf(word)
             made == MakeClientMessageBody(p)
  <2> SUFFICES ASSUME WordInv, Len(made.message) >= PacketHeader
               PROVE  /\ ReadHeader(made.message) = HeaderOf(p)
                      /\ Len(made.behind) = PacketHeader
                      /\ SubSeq(made.message, PacketHeader + 1, Len(made.message))
                            \o made.behind = p.body
    BY Zenon DEF MessageReadAsGiven
  <2>1. p \in Packets
    BY PacketOfType DEF WordInv
  <2> HIDE DEF p
  <2>2. Len(Packet(p)) \in Nat /\ ScratchMax \in Nat
    <3>1. Packet(p) \in Seq(Digits)
      BY <2>1, PacketLayout
    <3>2. Place[2] \in Nat
      BY PlaceType
    <3> QED
      BY <3>1, <3>2 DEF ScratchMax
  <2>3. CASE Len(Packet(p)) > ScratchMax
    BY <2>3 DEF MakeClientMessageBody, Made, PacketHeader
  <2>4. CASE ~(Len(Packet(p)) > ScratchMax)
    <3>1. /\ made.message = SubSeq(Packet(p), 1, Len(p.body))
          /\ made.behind = SubSeq(Packet(p), Len(p.body) + 1, Len(Packet(p)))
      BY <2>4 DEF MakeClientMessageBody, Made
    <3>2. Len(SubSeq(Packet(p), 1, Len(p.body))) = Len(p.body)
      <4>1. /\ Packet(p) \in Seq(Digits) /\ Len(Packet(p)) = 13 + Len(p.body)
            /\ p.body \in Seq(Digits)
        BY <2>1, PacketLayout DEF PacketHeader, Packets
      <4>2. Len(p.body) \in 0..Len(Packet(p))
        BY <4>1
      <4> QED
        BY <4>1, <4>2, Cut
    <3>3. Len(p.body) >= PacketHeader
      BY <3>1, <3>2
    <3> QED
      BY <2>1, <3>1, <3>3, MessageLayout
  <2> QED
    BY <2>3, <2>4
<1> QED
  BY WordIsWord, <1>1, PTL

(***************************************************************************)
(* The scratch buffer takes every packet, as a byte has four values or     *)
(* more: 128 KB for 13 bytes and a body of at most 64 KB - 1               *)
(* (router_socket.hpp:213).                                                *)
(***************************************************************************)
THEOREM NoPacketRefused == ASSUME Radix >= 4 PROVE Spec => []NeverRefused
<1>1. WordInv => NeverRefused
  <2> SUFFICES ASSUME WordInv PROVE MakeClientMessageBody(PacketOf(word)).outcome = "ok"
    BY DEF NeverRefused
  <2> DEFINE p == PacketOf(word)
  <2>1. p \in Packets
    BY PacketOfType DEF WordInv
  <2> HIDE DEF p
  <2>2. Len(Packet(p)) = 13 + Len(p.body)
    BY <2>1, PacketLayout DEF PacketHeader
  <2>3. Len(p.body) \in 0..Place[2]-1
    BY <2>1 DEF Packets, Words
  <2>4. Place[2] >= 16 /\ Place[2] \in Nat
    <3>1. Place[2] = Radix * Radix
      BY PlaceStep, PlaceOne
    <3> QED
      BY <3>1, RadixAssumption
  <2>5. ~(Len(Packet(p)) > ScratchMax)
    BY <2>2, <2>3, <2>4 DEF ScratchMax
  <2> QED
    BY <2>5 DEF MakeClientMessageBody, Made, p
<1> QED
  BY WordIsWord, <1>1, PTL

=============================================================================
