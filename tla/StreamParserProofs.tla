------------------------- MODULE StreamParserProofs -------------------------
(***************************************************************************)
(* Proofs about StreamParser, for every number of values of a byte, all    *)
(* capacities, and every stream cut in every way: the buffer refuses only  *)
(* long chunks, parse throws at its first read or not at all, and a parser *)
(* that takes the integers as the client wrote them implements             *)
(* MessageStream.                                                          *)
(***************************************************************************)
EXTENDS StreamParser, BitConverterProofs, WellFoundedInduction

LEMMA ByteIsDigit == Byte = Digits
BY ParserAssumption DEF Digits

LEMMA BytesAssociate ==
  \A a, b, c \in Seq(Byte) : (a \o b) \o c = a \o (b \o c)
BY ConcatAssociative

(* Take and Drop cut a sequence in two.                                    *)
LEMMA TakeType ==
  ASSUME NEW S, NEW s \in Seq(S), NEW n \in 0..Len(s)
  PROVE  /\ Take(s, n) \in Seq(S) /\ Len(Take(s, n)) = n
         /\ \A i \in 1..n : Take(s, n)[i] = s[i]
BY SubSeqProperties DEF Take

LEMMA DropType ==
  ASSUME NEW S, NEW s \in Seq(S), NEW n \in 0..Len(s)
  PROVE  /\ Drop(s, n) \in Seq(S) /\ Len(Drop(s, n)) = Len(s) - n
         /\ \A i \in 1..Len(s)-n : Drop(s, n)[i] = s[n + i]
BY SubSeqProperties DEF Drop

LEMMA TakeDrop ==
  ASSUME NEW S, NEW s \in Seq(S), NEW n \in 0..Len(s)
  PROVE  Take(s, n) \o Drop(s, n) = s
<1> DEFINE t == Take(s, n)
           d == Drop(s, n)
<1>1. /\ t \in Seq(S) /\ Len(t) = n /\ \A i \in 1..n : t[i] = s[i]
      /\ d \in Seq(S) /\ Len(d) = Len(s) - n /\ \A i \in 1..Len(s)-n : d[i] = s[n + i]
  BY TakeType, DropType
<1> HIDE DEF t, d
<1>2. /\ t \o d \in Seq(S) /\ Len(t \o d) = Len(s)
      /\ \A i \in 1..Len(s) : (t \o d)[i] = IF i <= n THEN t[i] ELSE d[i - n]
  BY <1>1, ConcatProperties
<1>3. ASSUME NEW i \in 1..Len(s) PROVE (t \o d)[i] = s[i]
  <2>1. CASE i <= n
    BY <1>1, <1>2, <2>1
  <2>2. CASE ~(i <= n)
    <3>1. i - n \in 1..Len(s)-n /\ n + (i - n) = i
      BY <2>2
    <3> QED
      BY <1>1, <1>2, <2>2, <3>1
  <2> QED
    BY <2>1, <2>2
<1>4. t \o d = s
  BY <1>2, <1>3, SeqEqual
<1> QED
  BY <1>4 DEF t, d

(* Dropping exactly the first part of a concatenation.                     *)
LEMMA DropOfConcat ==
  ASSUME NEW S, NEW s \in Seq(S), NEW t \in Seq(S)
  PROVE  Drop(s \o t, Len(s)) = t /\ Take(s \o t, Len(s)) = s
<1> DEFINE u == s \o t
<1>1. /\ u \in Seq(S) /\ Len(u) = Len(s) + Len(t)
      /\ \A i \in 1..Len(s) + Len(t) : u[i] = IF i <= Len(s) THEN s[i] ELSE t[i - Len(s)]
      /\ Len(s) \in 0..Len(u) /\ Len(u) - Len(s) = Len(t)
  BY ConcatProperties
<1> HIDE DEF u
<1>2. /\ Drop(u, Len(s)) \in Seq(S) /\ Len(Drop(u, Len(s))) = Len(t)
      /\ \A i \in 1..Len(t) : Drop(u, Len(s))[i] = u[Len(s) + i]
  BY <1>1, DropType
<1>3. \A i \in 1..Len(t) : Drop(u, Len(s))[i] = t[i]
  BY <1>1, <1>2
<1>4. Drop(u, Len(s)) = t
  BY <1>2, <1>3, SeqEqual
<1>5. /\ Take(u, Len(s)) \in Seq(S) /\ Len(Take(u, Len(s))) = Len(s)
      /\ \A i \in 1..Len(s) : Take(u, Len(s))[i] = u[i]
  BY <1>1, TakeType
<1>6. ASSUME NEW i \in 1..Len(s) PROVE Take(u, Len(s))[i] = s[i]
  <2>1. Len(s) \in Nat /\ Len(t) \in Nat
    OBVIOUS
  <2>2. i \in 1..Len(s) + Len(t) /\ i <= Len(s)
    BY <2>1
  <2> QED
    BY <1>1, <1>5, <2>2
<1>7. Take(u, Len(s)) = s
  BY <1>5, <1>6, SeqEqual
<1> QED
  BY <1>4, <1>7 DEF u

-----------------------------------------------------------------------------
(* Induction, as a fact about the set of the numbers that have a property. *)
LEMMA InductionOnSets ==
  ASSUME NEW S, 0 \in S, \A n \in Nat : n \in S => n + 1 \in S
  PROVE  Nat \subseteq S
<1> DEFINE T == Nat \ S
<1> SUFFICES ASSUME T # {} PROVE FALSE
  OBVIOUS
<1> DEFINE R == OpToRel(<, Nat)
<1>1. IsWellFoundedOn(R, Nat)
  BY NatLessThanWellFounded
<1>2. \A k, n \in Nat : k < n => <<k, n>> \in R
  BY DEF OpToRel
<1> HIDE DEF R
<1>3. PICK n \in T : \A k \in T : ~(<<k, n>> \in R)
  BY WFMin, <1>1
<1>4. n # 0 /\ n - 1 \in Nat /\ n - 1 < n /\ (n - 1) + 1 = n
  BY <1>3
<1>5. n - 1 \in S
  BY <1>2, <1>3, <1>4
<1> QED
  BY <1>3, <1>4, <1>5

(***************************************************************************)
(* What FlattenSeq computes: its function exists, and depends only on the  *)
(* sequences it has joined so far.                                         *)
(***************************************************************************)
Flattening(g, seqs, n) ==
  g = [i \in 1..n |-> IF i = 1 THEN seqs[i] ELSE g[i - 1] \o seqs[i]]

LEMMA FlatteningExists ==
  ASSUME NEW seqs, NEW n \in Nat
  PROVE  \E g : Flattening(g, seqs, n)
<1> DEFINE S == {k \in Nat : \E g : Flattening(g, seqs, k)}
<1>1. 0 \in S
  <2>1. Flattening(<<>>, seqs, 0)
    BY DEF Flattening
  <2> QED
    BY <2>1
<1>2. ASSUME NEW k \in Nat, k \in S PROVE k + 1 \in S
  <2>1. PICK g : Flattening(g, seqs, k)
    BY <1>2
  <2> DEFINE h == [i \in 1..k+1 |-> IF i <= k THEN g[i]
                                    ELSE IF i = 1 THEN seqs[i] ELSE g[k] \o seqs[i]]
  <2>2. h = [i \in 1..k+1 |-> h[i]]
    OBVIOUS
  <2>3. ASSUME NEW i \in 1..k+1
        PROVE  h[i] = IF i = 1 THEN seqs[i] ELSE h[i - 1] \o seqs[i]
    <3>1. CASE i <= k
      <4>1. g[i] = IF i = 1 THEN seqs[i] ELSE g[i - 1] \o seqs[i]
        <5>1. i \in 1..k
          BY <3>1
        <5> QED
          BY <2>1, <5>1 DEF Flattening
      <4>2. i # 1 => i - 1 \in 1..k+1 /\ i - 1 <= k
        BY <3>1
      <4>3. h[i] = g[i] /\ (i # 1 => h[i - 1] = g[i - 1])
        BY <3>1, <4>2
      <4> HIDE DEF h
      <4> QED
        BY <4>1, <4>3
    <3>2. CASE ~(i <= k)
      <4>1. i = k + 1 /\ (i # 1 => k \in 1..k+1 /\ i - 1 = k)
        BY <3>2
      <4>2. h[i] = (IF i = 1 THEN seqs[i] ELSE g[k] \o seqs[i])
        BY <3>2
      <4>3. i # 1 => h[i - 1] = g[k]
        BY <4>1
      <4> HIDE DEF h
      <4> QED
        BY <4>2, <4>3
    <3> QED
      BY <3>1, <3>2
  <2> HIDE DEF h
  <2>4. h = [i \in 1..k+1 |-> IF i = 1 THEN seqs[i] ELSE h[i - 1] \o seqs[i]]
    BY <2>2, <2>3
  <2>5. Flattening(h, seqs, k + 1)
    BY <2>4 DEF Flattening
  <2>6. \E f : Flattening(f, seqs, k + 1)
    BY <2>5, Zenon
  <2> QED
    BY <2>6
<1> HIDE DEF S
<1>3. n \in S
  BY <1>1, <1>2, InductionOnSets
<1> QED
  BY <1>3 DEF S

LEMMA FlatteningAgrees ==
  ASSUME NEW r, NEW s, NEW n \in Nat, NEW k \in Nat, NEW g, NEW h,
         Flattening(g, r, n), Flattening(h, s, n + k), \A i \in 1..n : r[i] = s[i]
  PROVE  \A i \in 1..n : g[i] = h[i]
<1> DEFINE S == {j \in Nat : j \in 1..n => g[j] = h[j]}
<1>1. 0 \in S
  OBVIOUS
<1>2. ASSUME NEW j \in Nat, j \in S PROVE j + 1 \in S
  <2> SUFFICES ASSUME j + 1 \in 1..n PROVE g[j + 1] = h[j + 1]
    OBVIOUS
  <2>1. /\ g[j + 1] = IF j + 1 = 1 THEN r[j + 1] ELSE g[(j + 1) - 1] \o r[j + 1]
        /\ h[j + 1] = IF j + 1 = 1 THEN s[j + 1] ELSE h[(j + 1) - 1] \o s[j + 1]
    <3>1. j + 1 \in 1..n+k
      OBVIOUS
    <3> QED
      BY <3>1 DEF Flattening
  <2>2. j + 1 # 1 => j \in 1..n /\ (j + 1) - 1 = j
    OBVIOUS
  <2> QED
    BY <1>2, <2>1, <2>2
<1> HIDE DEF S
<1>3. Nat \subseteq S
  BY <1>1, <1>2, InductionOnSets
<1> QED
  BY <1>3 DEF S

LEMMA FlattenSeqIs ==
  ASSUME NEW seqs, Len(seqs) \in Nat \ {0}
  PROVE  \E g : Flattening(g, seqs, Len(seqs)) /\ FlattenSeq(seqs) = g[Len(seqs)]
<1> DEFINE f == CHOOSE g : g = [i \in 1..Len(seqs) |->
                                  IF i = 1 THEN seqs[i] ELSE g[i - 1] \o seqs[i]]
<1>1. f = [i \in 1..Len(seqs) |-> IF i = 1 THEN seqs[i] ELSE f[i - 1] \o seqs[i]]
  <2>1. \E g : g = [i \in 1..Len(seqs) |->
                      IF i = 1 THEN seqs[i] ELSE g[i - 1] \o seqs[i]]
    BY FlatteningExists DEF Flattening
  <2> QED
    BY <2>1, Zenon
<1>2. FlattenSeq(seqs) = f[Len(seqs)]
  BY Zenon DEF FlattenSeq
<1> HIDE DEF f
<1> QED
  BY <1>1, <1>2, Zenon DEF Flattening

-----------------------------------------------------------------------------
(***************************************************************************)
(* A message on the wire.                                                  *)
(***************************************************************************)
(* The messages a stream may hold: the size of a body is an unsigned       *)
(* number of two bytes.                                                    *)
Sendable == {m \in Messages : Len(m.body) <= MaxPacketSize}

LEMMA SendableFields ==
  ASSUME NEW m \in Sendable
  PROVE  /\ m \in Messages
         /\ m.serviceId \in Words(2) /\ m.msgId \in Words(4) /\ m.msgSeq \in Words(2)
         /\ m.stageIndex \in Byte /\ m.body \in Seq(Byte)
         /\ Len(m.body) \in Words(2) /\ Len(m.body) \in Nat
BY PlaceType DEF Sendable, Messages, MaxPacketSize, Words

LEMMA StreamsAreSendable == Streams \subseteq Seq(Sendable)
<1> SUFFICES ASSUME NEW s \in Streams PROVE s \in Seq(Sendable)
  OBVIOUS
<1>1. s \in Seq(Messages) /\ \A i \in 1..Len(s) : s[i] \in Sendable
  BY StreamAssumption DEF Sendable
<1> QED
  BY <1>1

LEMMA StreamsAssociate ==
  \A s, t, u \in Seq(Sendable) : (s \o t) \o u = s \o (t \o u)
BY ConcatAssociative

LEMMA OnWireType ==
  ASSUME NEW w \in RingWidths, NEW v \in Words(w)
  PROVE  /\ OnWire(v, w) \in [1..w -> Digits]
         /\ OnWire(v, w) \in Seq(Byte) /\ Len(OnWire(v, w)) = w
<1>1. w \in Widths /\ w \in Nat
  BY DEF RingWidths, Widths
<1>2. ToBytes(v, w) \in [1..w -> Digits] /\ Reverse(ToBytes(v, w)) \in [1..w -> Digits]
  BY <1>1, ToBytesType, ReverseDigits
<1>3. OnWire(v, w) \in [1..w -> Digits]
  BY <1>2 DEF OnWire
<1> QED
  BY <1>1, <1>3, SeqOfDigits, ByteIsDigit

(* A parser of the same byte order as the client finds what was written.   *)
LEMMA FromWire ==
  ASSUME WireBigEndian = HostBigEndian, NEW w \in RingWidths, NEW v \in Words(w)
  PROVE  ToHost(FromBytes(OnWire(v, w)), w) = v
<1> DEFINE u == FromBytes(OnWire(v, w))
<1>1. w \in Widths
  BY DEF RingWidths, Widths
<1>2. u \in Words(w)
  BY OnWireType, FromBytesIs
<1>3. CASE HostBigEndian
  <2>1. u = v
    BY <1>3, BytesOfWord DEF OnWire
  <2> QED
    BY <1>1, <1>3, <2>1, ToNetworkReverses DEF ToHost
<1>4. CASE ~HostBigEndian
  <2>1. Reversed(u, v, w)
    BY <1>4, ReversedBytesOfWord DEF OnWire
  <2> HIDE DEF u
  <2>2. Reversed(ToNetwork(u, w), u, w)
    BY <1>1, <1>2, <1>4, ToNetworkReverses
  <2> QED
    BY <1>1, <2>1, <2>2, ReversedTwice DEF ToHost, u
<1> QED
  BY <1>3, <1>4

LEMMA ReadOnWire ==
  ASSUME WireBigEndian = HostBigEndian, NEW w \in RingWidths, NEW v \in Words(w),
         NEW s \in Seq(Byte), NEW k \in Nat, At(s, k, OnWire(v, w))
  PROVE  IntAt(s, k + 1, w) = v
<1>0. w \in Nat
  BY DEF RingWidths
<1>1. OnWire(v, w) \in Seq(Byte) /\ Len(OnWire(v, w)) = w
  BY OnWireType
<1>2. SubSeq(s, k + 1, k + w) = OnWire(v, w)
  <2>1. SubSeq(s, k + 1, k + Len(OnWire(v, w))) = OnWire(v, w)
    BY <1>1, AtSubSeq
  <2> QED
    BY <1>1, <2>1
<1>3. k + 1 + w - 1 = k + w
  BY <1>0
<1> QED
  BY <1>2, <1>3, FromWire DEF IntAt

(* The fields of a message lie on the wire one after the other.            *)
LEMMA MessageLayout ==
  ASSUME NEW m \in Sendable
  PROVE  LET s == Encode(m)
         IN  /\ s \in Seq(Byte) /\ Len(s) = HeaderSize + Len(m.body)
             /\ At(s, 0, OnWire(Len(m.body), 2)) /\ At(s, 2, OnWire(m.serviceId, 2))
             /\ At(s, 4, OnWire(m.msgId, 4)) /\ At(s, 8, OnWire(m.msgSeq, 2))
             /\ At(s, 10, <<m.stageIndex>>) /\ At(s, 11, m.body)
<1> DEFINE f1 == OnWire(Len(m.body), 2)
           f2 == OnWire(m.serviceId, 2)
           f3 == OnWire(m.msgId, 4)
           f4 == OnWire(m.msgSeq, 2)
           f5 == <<m.stageIndex>>
           f6 == m.body
           s2 == f1 \o f2
           s3 == s2 \o f3
           s4 == s3 \o f4
           s5 == s4 \o f5
           s6 == s5 \o f6
<1>1. /\ f1 \in Seq(Byte) /\ f2 \in Seq(Byte) /\ f3 \in Seq(Byte)
      /\ f4 \in Seq(Byte) /\ f5 \in Seq(Byte) /\ f6 \in Seq(Byte)
      /\ Len(f1) = 2 /\ Len(f2) = 2 /\ Len(f3) = 4 /\ Len(f4) = 2 /\ Len(f5) = 1
  BY SendableFields, OnWireType DEF RingWidths
<1>2. Encode(m) = s6 /\ f6 = m.body
  BY DEF Encode
<1> HIDE DEF f1, f2, f3, f4, f5, f6
<1> DEFINE Grown(s, a, f) ==
      /\ s \in Seq(Byte)
      /\ Len(s) = Len(a) + Len(f)
      /\ At(s, Len(a), f)
      /\ \A g \in Seq(Byte), k \in Nat : At(a, k, g) => At(s, k, g)
<1>3. Grown(s2, f1, f2)
  BY <1>1, AtConcat, Zenon
<1> HIDE DEF s2
<1>4. Grown(s3, s2, f3)
  BY <1>1, <1>3, AtConcat, Zenon
<1> HIDE DEF s3
<1>5. Grown(s4, s3, f4)
  BY <1>1, <1>4, AtConcat, Zenon
<1> HIDE DEF s4
<1>6. Grown(s5, s4, f5)
  BY <1>1, <1>5, AtConcat, Zenon
<1> HIDE DEF s5
<1>7. Grown(s6, s5, f6)
  BY <1>1, <1>6, AtConcat, Zenon
<1> HIDE DEF s6
<1>8. /\ 0 \in Nat /\ 2 \in Nat /\ 4 \in Nat /\ 8 \in Nat /\ 10 \in Nat
      /\ At(f1, 0, f1)
      /\ Len(s2) = 4 /\ Len(s3) = 8 /\ Len(s4) = 10 /\ Len(s5) = 11
  BY <1>1, <1>3, <1>4, <1>5, <1>6 DEF At
<1>9. /\ s6 \in Seq(Byte) /\ Len(s6) = 11 + Len(f6)
      /\ At(s6, 2, f2) /\ At(s6, 4, f3) /\ At(s6, 8, f4) /\ At(s6, 10, f5)
      /\ At(s6, 11, f6) /\ At(s6, 0, f1)
  BY <1>1, <1>3, <1>4, <1>5, <1>6, <1>7, <1>8
<1> QED
  BY <1>2, <1>9 DEF HeaderSize, f1, f2, f3, f4, f5

-----------------------------------------------------------------------------
(***************************************************************************)
(* The messages of a stream, one after the other: EncodeAll joins what it  *)
(* makes of the parts of the stream.                                       *)
(***************************************************************************)
Encodings(s) == [i \in DOMAIN s |-> Encode(s[i])]

LEMMA EncodingsType ==
  ASSUME NEW s \in Seq(Sendable)
  PROVE  /\ Encodings(s) \in Seq(Seq(Byte)) /\ Len(Encodings(s)) = Len(s)
         /\ \A i \in 1..Len(s) : Encodings(s)[i] = Encode(s[i])
<1>1. ASSUME NEW i \in 1..Len(s) PROVE Encode(s[i]) \in Seq(Byte)
  <2>1. s[i] \in Sendable
    OBVIOUS
  <2> QED
    BY <2>1, MessageLayout
<1>2. Encodings(s) \in [1..Len(s) -> Seq(Byte)]
  BY <1>1 DEF Encodings
<1>3. Len(s) \in Nat
  OBVIOUS
<1> QED
  BY <1>2, <1>3 DEF Encodings

LEMMA EncodeAllEmpty == EncodeAll(<<>>) = <<>>
<1>1. [i \in DOMAIN <<>> |-> Encode(<<>>[i])] = <<>>
  OBVIOUS
<1>2. FlattenSeq(<<>>) = <<>>
  BY DEF FlattenSeq
<1> QED
  BY <1>1, <1>2 DEF EncodeAll

LEMMA EncodeAllAppend ==
  ASSUME NEW s \in Seq(Sendable), NEW m \in Sendable
  PROVE  EncodeAll(Append(s, m)) = EncodeAll(s) \o Encode(m)
<1> DEFINE n == Len(s)
           e == Encodings(s)
           f == Encodings(Append(s, m))
<1>1. n \in Nat
  OBVIOUS
<1>2. /\ Append(s, m) \in Seq(Sendable) /\ Len(Append(s, m)) = n + 1
      /\ \A i \in 1..n : Append(s, m)[i] = s[i]
      /\ Append(s, m)[n + 1] = m
  BY AppendProperties
<1>3. /\ Len(e) = n /\ Len(f) = n + 1
      /\ \A i \in 1..n : e[i] = f[i]
      /\ f[n + 1] = Encode(m)
  <2>1. \A i \in 1..n : e[i] = Encode(s[i])
    BY EncodingsType
  <2>2. Len(f) = n + 1 /\ \A i \in 1..n+1 : f[i] = Encode(Append(s, m)[i])
    BY <1>2, EncodingsType
  <2>3. Len(e) = n
    BY EncodingsType
  <2> HIDE DEF e, f
  <2>4. \A i \in 1..n : i \in 1..n+1
    BY <1>1
  <2>5. n + 1 \in 1..n+1
    BY <1>1
  <2> QED
    BY <1>2, <2>1, <2>2, <2>3, <2>4, <2>5
<1>4. EncodeAll(s) = FlattenSeq(e) /\ EncodeAll(Append(s, m)) = FlattenSeq(f)
  BY DEF EncodeAll, Encodings
<1>5. CASE n = 0
  <2>1. s = <<>> /\ EncodeAll(s) = <<>>
    BY <1>5, EncodeAllEmpty
  <2> HIDE DEF f, n
  <2>2. PICK g : Flattening(g, f, 1) /\ FlattenSeq(f) = g[1]
    <3>1. Len(f) = 1 /\ Len(f) \in Nat \ {0}
      BY <1>3, <1>5
    <3>2. \E g : Flattening(g, f, Len(f)) /\ FlattenSeq(f) = g[Len(f)]
      BY <3>1, FlattenSeqIs, Zenon
    <3> QED
      BY <3>1, <3>2
  <2>3. g[1] = f[1] /\ f[1] = Encode(m)
    BY <1>3, <1>5, <2>2 DEF Flattening
  <2>4. Encode(m) \in Seq(Byte)
    BY MessageLayout
  <2>5. <<>> \o Encode(m) = Encode(m)
    BY <2>4, ConcatEmptySeq
  <2> QED
    BY <1>4, <2>1, <2>2, <2>3, <2>5
<1>6. CASE n # 0
  <2> HIDE DEF e, f, n
  <2>1. PICK g : Flattening(g, e, n) /\ FlattenSeq(e) = g[n]
    <3>1. Len(e) \in Nat \ {0}
      BY <1>1, <1>3, <1>6
    <3> QED
      BY <1>3, <3>1, FlattenSeqIs
  <2>2. PICK h : Flattening(h, f, n + 1) /\ FlattenSeq(f) = h[n + 1]
    <3>1. Len(f) \in Nat \ {0}
      BY <1>1, <1>3
    <3> QED
      BY <1>3, <3>1, FlattenSeqIs
  <2>3. g[n] = h[n]
    <3>1. \A i \in 1..n : g[i] = h[i]
      BY <1>1, <1>3, <2>1, <2>2, FlatteningAgrees
    <3> QED
      BY <1>1, <1>6, <3>1
  <2>4. h[n + 1] = h[n] \o f[n + 1]
    <3>1. n + 1 \in 1..n+1 /\ n + 1 # 1 /\ (n + 1) - 1 = n
      BY <1>1, <1>6
    <3> QED
      BY <2>2, <3>1 DEF Flattening
  <2> QED
    BY <1>3, <1>4, <2>1, <2>2, <2>3, <2>4
<1> QED
  BY <1>5, <1>6

LEMMA EncodeAllConcat ==
  ASSUME NEW s \in Seq(Sendable), NEW t \in Seq(Sendable)
  PROVE  /\ EncodeAll(s) \in Seq(Byte)
         /\ EncodeAll(s \o t) = EncodeAll(s) \o EncodeAll(t)
<1> DEFINE S == {n \in Nat : \A u \in Seq(Sendable) : Len(u) = n =>
                   /\ EncodeAll(u) \in Seq(Byte)
                   /\ \A r \in Seq(Sendable) : EncodeAll(r) \in Seq(Byte) =>
                        EncodeAll(r \o u) = EncodeAll(r) \o EncodeAll(u)}
<1>1. 0 \in S
  <2> SUFFICES ASSUME NEW u \in Seq(Sendable), Len(u) = 0
               PROVE  /\ EncodeAll(u) \in Seq(Byte)
                      /\ \A r \in Seq(Sendable) : EncodeAll(r) \in Seq(Byte) =>
                           EncodeAll(r \o u) = EncodeAll(r) \o EncodeAll(u)
    OBVIOUS
  <2>1. u = <<>> /\ EncodeAll(u) = <<>> /\ <<>> \in Seq(Byte)
    BY EncodeAllEmpty
  <2>2. ASSUME NEW r \in Seq(Sendable), EncodeAll(r) \in Seq(Byte)
        PROVE  EncodeAll(r \o u) = EncodeAll(r) \o EncodeAll(u)
    <3>1. r \o <<>> = r /\ EncodeAll(r) \o <<>> = EncodeAll(r)
      BY <2>2, ConcatEmptySeq
    <3> QED
      BY <2>1, <3>1
  <2> QED
    BY <2>1, <2>2
<1>2. ASSUME NEW n \in Nat, n \in S PROVE n + 1 \in S
  <2> SUFFICES ASSUME NEW u \in Seq(Sendable), Len(u) = n + 1
               PROVE  /\ EncodeAll(u) \in Seq(Byte)
                      /\ \A r \in Seq(Sendable) : EncodeAll(r) \in Seq(Byte) =>
                           EncodeAll(r \o u) = EncodeAll(r) \o EncodeAll(u)
    OBVIOUS
  <2>1. PICK v \in Seq(Sendable), m \in Sendable : u = Append(v, m)
    <3>1. u # <<>>
      OBVIOUS
    <3> QED
      BY <3>1, SequenceEmptyOrAppend
  <2>2. Len(v) = n
    BY <2>1, AppendProperties
  <2>3. Encode(m) \in Seq(Byte)
    BY MessageLayout
  <2>4. EncodeAll(v) \in Seq(Byte) /\ EncodeAll(u) = EncodeAll(v) \o Encode(m)
    BY <1>2, <2>1, <2>2, EncodeAllAppend
  <2>5. EncodeAll(u) \in Seq(Byte)
    BY <2>3, <2>4, ConcatProperties
  <2>6. ASSUME NEW r \in Seq(Sendable), EncodeAll(r) \in Seq(Byte)
        PROVE  EncodeAll(r \o u) = EncodeAll(r) \o EncodeAll(u)
    <3>1. r \o u = Append(r \o v, m) /\ r \o v \in Seq(Sendable)
      <4>1. u = v \o <<m>> /\ <<m>> \in Seq(Sendable) /\ r \o v \in Seq(Sendable)
        BY <2>1, AppendIsConcat, ConcatProperties
      <4>2. (r \o v) \o <<m>> = r \o (v \o <<m>>)
        <5> DEFINE w == <<m>>
        <5>1. w \in Seq(Sendable)
          BY <4>1
        <5> HIDE DEF w
        <5>2. (r \o v) \o w = r \o (v \o w)
          BY <5>1, StreamsAssociate, Zenon
        <5> QED
          BY <5>2 DEF w
      <4>3. Append(r \o v, m) = (r \o v) \o <<m>>
        BY <4>1, AppendIsConcat
      <4> QED
        BY <4>1, <4>2, <4>3
    <3>2. EncodeAll(r \o v) = EncodeAll(r) \o EncodeAll(v)
      BY <1>2, <2>2, <2>6
    <3>3. EncodeAll(r \o u) = (EncodeAll(r) \o EncodeAll(v)) \o Encode(m)
      BY <3>1, <3>2, EncodeAllAppend
    <3>4. (EncodeAll(r) \o EncodeAll(v)) \o Encode(m)
            = EncodeAll(r) \o (EncodeAll(v) \o Encode(m))
      BY <2>3, <2>4, <2>6, BytesAssociate, Zenon
    <3> QED
      BY <2>4, <3>3, <3>4
  <2> QED
    BY <2>5, <2>6
<1> HIDE DEF S
<1>3. Len(s) \in S /\ Len(t) \in S
  BY <1>1, <1>2, InductionOnSets
<1>4. EncodeAll(s) \in Seq(Byte)
  BY <1>3 DEF S
<1> QED
  BY <1>3, <1>4 DEF S

LEMMA EncodeAllOne ==
  ASSUME NEW m \in Sendable
  PROVE  EncodeAll(<<m>>) = Encode(m)
<1>1. Append(<<>>, m) = <<m>> /\ <<>> \in Seq(Sendable)
  OBVIOUS
<1>2. Encode(m) \in Seq(Byte)
  BY MessageLayout
<1>3. <<>> \o Encode(m) = Encode(m)
  BY <1>2, ConcatEmptySeq
<1>4. EncodeAll(Append(<<>>, m)) = EncodeAll(<<>>) \o Encode(m)
  BY <1>1, EncodeAllAppend
<1> QED
  BY <1>1, <1>3, <1>4, EncodeAllEmpty

-----------------------------------------------------------------------------
(***************************************************************************)
(* What parse() finds at the front of the buffer has the type of a message.*)
(***************************************************************************)
LEMMA IntAtType ==
  ASSUME NEW w \in RingWidths, NEW s \in Seq(Byte), NEW k \in 1..Len(s),
         k + w - 1 <= Len(s)
  PROVE  IntAt(s, k, w) \in Words(w)
<1> DEFINE b == SubSeq(s, k, k + w - 1)
<1>1. w \in Nat /\ w # 0 /\ w \in Widths
  BY DEF RingWidths, Widths
<1>2. b \in Seq(Byte) /\ Len(b) = w
  <2>1. \A i \in k..(k + w - 1) : s[i] \in Byte
    BY <1>1
  <2>2. k \in Int /\ k + w - 1 \in Int /\ k <= k + w - 1 /\ (k + w - 1) - k + 1 = w
    BY <1>1
  <2> QED
    BY <2>1, <2>2, SubSeqProperties
<1> HIDE DEF b
<1>3. b \in [1..w -> Digits]
  BY <1>2, ByteIsDigit
<1>4. FromBytes(b) \in Words(w)
  BY <1>3, FromBytesIs
<1> QED
  BY <1>1, <1>4, ToNetworkReverses DEF IntAt, ToHost, b

LEMMA FrontType ==
  ASSUME queue \in Seq(Byte), HasHeader
  PROVE  /\ BodySize \in Words(2) /\ BodySize \in Nat
         /\ BodySize <= MaxPacketSize
         /\ HasMessage => FrontMessage \in Messages
<1>1. Len(queue) \in Nat /\ Len(queue) >= 11
  BY DEF HasHeader, HeaderSize
<1>2. 2 \in RingWidths /\ 4 \in RingWidths
  BY DEF RingWidths
<1>3. /\ IntAt(queue, 1, 2) \in Words(2) /\ IntAt(queue, 3, 2) \in Words(2)
      /\ IntAt(queue, 9, 2) \in Words(2) /\ IntAt(queue, 5, 4) \in Words(4)
  <2>1. 1 \in 1..Len(queue) /\ 3 \in 1..Len(queue) /\ 5 \in 1..Len(queue) /\ 9 \in 1..Len(queue)
    BY <1>1
  <2>2. IntAt(queue, 1, 2) \in Words(2)
    BY <1>1, <1>2, <2>1, IntAtType
  <2>3. IntAt(queue, 3, 2) \in Words(2)
    BY <1>1, <1>2, <2>1, IntAtType
  <2>4. IntAt(queue, 9, 2) \in Words(2)
    BY <1>1, <1>2, <2>1, IntAtType
  <2>5. IntAt(queue, 5, 4) \in Words(4)
    BY <1>1, <1>2, <2>1, IntAtType
  <2> QED
    BY <2>2, <2>3, <2>4, <2>5
<1>4. BodySize \in Words(2) /\ BodySize \in Nat /\ BodySize <= MaxPacketSize
  BY <1>3, PlaceType DEF BodySize, Words, MaxPacketSize
<1>5. ASSUME HasMessage PROVE FrontMessage \in Messages
  <2>1. queue[11] \in Byte
    BY <1>1
  <2>2. SubSeq(queue, HeaderSize + 1, HeaderSize + BodySize) \in Seq(Byte)
    <3>1. \A i \in (HeaderSize + 1)..(HeaderSize + BodySize) : queue[i] \in Byte
      BY <1>1, <1>4, <1>5 DEF HasMessage, HeaderSize
    <3>2. HeaderSize + 1 \in Int /\ HeaderSize + BodySize \in Int
      BY <1>4 DEF HeaderSize
    <3> HIDE DEF HeaderSize
    <3> QED
      BY <3>1, <3>2, SubSeqProperties
  <2> QED
    BY <1>3, <2>1, <2>2 DEF FrontMessage, Messages
<1> QED
  BY <1>4, <1>5

-----------------------------------------------------------------------------
(***************************************************************************)
(* The invariant that needs no message: what the control state says about  *)
(* the buffer, the write call and the list of parse().                     *)
(***************************************************************************)
Residue == HeaderSize + MaxPacketSize - 1

(* The buffer is never over its capacity.                                  *)
Bounded == Len(queue) <= cap
(* The list lives in parse() only, the write call in write only.           *)
Local ==
  /\ pc # "parse" => batch = <<>>
  /\ pc # "write" => pending = <<>>
(* A message taken has left room for the reads of the next one.            *)
RoomAfterFirst == pc = "parse" /\ batch # <<>> => Len(queue) < cap
(* onReceived returns with less than a message in the buffer, and the      *)
(* bytes it is storing come on top of that.                                *)
LessThanMessage == pc = "idle" => ~(HasHeader /\ HasMessage)
StoredOfChunk == pc = "write" => Len(queue) + Len(pending) <= ret.arg + Residue

ControlInv ==
  /\ TypeOK /\ Bounded /\ Local /\ RoomAfterFirst /\ LessThanMessage /\ StoredOfChunk

LEMMA RingResults ==
  ASSUME NEW n \in Nat
  PROVE  /\ Returns("new", n, <<>>) \in Results /\ Returns("new", n, <<>>).arg = n
         /\ Returns("write", n, <<>>) \in Results /\ Returns("write", n, <<>>).arg = n
         /\ Throws("write", n, "out_of_range") \in Results
         /\ Throws("write", n, "out_of_range").arg = n
BY DEF Returns, Throws, Results, Calls, Exceptions

LEMMA CapacityType ==
  ASSUME TypeOK PROVE cap \in Nat \ {0} /\ MaxCapacity \in Nat /\ cap <= MaxCapacity
BY ParserAssumption DEF TypeOK

LEMMA ResidueType == Residue \in Nat /\ HeaderSize = 11 /\ MaxPacketSize \in Nat
BY PlaceType DEF Residue, HeaderSize, MaxPacketSize

LEMMA InitControl == Init => ControlInv
<1> SUFFICES ASSUME Init PROVE ControlInv
  OBVIOUS
<1>1. wire \in Seq(Byte) /\ sent \in Streams
  <2>1. sent \in Seq(Sendable)
    BY StreamsAreSendable DEF Init
  <2> QED
    BY <2>1, EncodeAllConcat DEF Init
<1>2. /\ queue = <<>> /\ cap = InitCapacity /\ pending = <<>> /\ ret \in Results
      /\ pc = "idle" /\ batch = <<>> /\ out = <<>>
  <2>1. Returns("new", 0, <<>>) \in Results
    BY RingResults
  <2> QED
    BY <2>1 DEF Init, Ring!Init, Ring!Returns, Returns
<1>3. TypeOK
  BY <1>1, <1>2, ParserAssumption DEF TypeOK
<1>4. LessThanMessage
  BY <1>2 DEF LessThanMessage, HasHeader, HeaderSize
<1>5. Bounded
  BY <1>2, ParserAssumption DEF Bounded
<1> QED
  BY <1>2, <1>3, <1>4, <1>5 DEF ControlInv, Local, RoomAfterFirst, StoredOfChunk

LEMMA ReceiveControl ==
  ASSUME ControlInv, NEW n \in 1..MaxWrite, Receive(n) PROVE ControlInv'
<1> USE DEF ControlInv
<1>1. /\ pc = "idle" /\ n \in 0..Len(wire) /\ pending' = Take(wire, n)
      /\ wire' = Drop(wire, n) /\ pc' = "write"
      /\ ret' = Returns("write", Len(Take(wire, n)), <<>>)
      /\ queue' = queue /\ cap' = cap /\ sent' = sent /\ batch' = batch /\ out' = out
  BY DEF Receive, Ring!StartWrite, Ring!Returns, Returns, TypeOK
<1>2. /\ Take(wire, n) \in Seq(Byte) /\ Len(Take(wire, n)) = n
      /\ Drop(wire, n) \in Seq(Byte)
  <2>1. wire \in Seq(Byte) /\ n \in 0..Len(wire)
    BY <1>1 DEF TypeOK
  <2> QED
    BY <2>1, TakeType, DropType
<1>3. ret' \in Results /\ ret'.arg = n /\ n \in Nat
  BY <1>1, <1>2, RingResults
<1>4. TypeOK'
  BY <1>1, <1>2, <1>3 DEF TypeOK
<1>5. Len(queue) <= Residue
  <2>1. Len(queue) \in Nat
    BY DEF TypeOK
  <2>2. CASE ~HasHeader
    BY <2>1, <2>2, ResidueType DEF HasHeader, Residue
  <2>3. CASE HasHeader
    <3>1. BodySize \in Nat /\ BodySize <= MaxPacketSize
      BY <2>3, FrontType DEF TypeOK
    <3>2. ~(Len(queue) >= BodySize + HeaderSize)
      BY <1>1, <2>3 DEF LessThanMessage, HasMessage
    <3> QED
      BY <2>1, <3>1, <3>2, ResidueType DEF Residue
  <2> QED
    BY <2>2, <2>3
<1>6. StoredOfChunk'
  <2>1. Len(queue) \in Nat
    BY DEF TypeOK
  <2> QED
    BY <1>1, <1>2, <1>3, <1>5, <2>1, ResidueType DEF StoredOfChunk, Residue
<1> QED
  BY <1>1, <1>4, <1>6 DEF Bounded, Local, RoomAfterFirst, LessThanMessage

LEMMA StoreByteControl ==
  ASSUME ControlInv, StoreByte PROVE ControlInv'
<1> USE DEF ControlInv
<1>1. /\ pc = "write" /\ pc' = pc /\ pending # <<>>
      /\ queue' = Append(queue, Head(pending)) /\ pending' = Tail(pending)
      /\ ret' = ret /\ sent' = sent /\ wire' = wire /\ batch' = batch /\ out' = out
      /\ \/ Len(queue) < cap /\ cap' = cap
         \/ Len(queue) = cap /\ cap * 2 <= MaxCapacity /\ cap' = cap * 2
  BY DEF StoreByte, Ring!PushByte, Ring!Idle
<1>2. /\ queue \in Seq(Byte) /\ pending \in Seq(Byte) /\ Len(queue) \in Nat
      /\ cap \in InitCapacity..MaxCapacity
  BY DEF TypeOK
<1>3. Head(pending) \in Byte /\ Tail(pending) \in Seq(Byte) /\ Len(Tail(pending)) = Len(pending) - 1
  BY <1>1, <1>2, HeadTailProperties
<1>4. /\ queue' \in Seq(Byte) /\ Len(queue') = Len(queue) + 1
  BY <1>1, <1>2, <1>3, AppendProperties
<1>5. cap' \in InitCapacity..MaxCapacity
  BY <1>1, <1>2, ParserAssumption
<1>6. TypeOK'
  BY <1>1, <1>3, <1>4, <1>5 DEF TypeOK
<1>7. Bounded'
  BY <1>1, <1>2, <1>4, CapacityType DEF Bounded
<1>8. StoredOfChunk'
  <2>1. Len(pending) \in Nat /\ ret.arg \in Nat
    BY <1>2 DEF TypeOK, Results
  <2> QED
    BY <1>1, <1>2, <1>3, <1>4, <2>1, ResidueType DEF StoredOfChunk, Residue
<1> QED
  BY <1>1, <1>6, <1>7, <1>8 DEF Local, RoomAfterFirst, LessThanMessage

LEMMA StoreFailsControl ==
  ASSUME ControlInv, StoreFails
  PROVE  /\ ControlInv'
         /\ Len(queue) = cap /\ cap * 2 > MaxCapacity
         /\ ret'.arg = ret.arg /\ cap < ret.arg + Residue
<1> USE DEF ControlInv
<1>1. /\ pc = "write" /\ pc' = "writeFailed" /\ pending # <<>> /\ pending' = <<>>
      /\ Len(queue) = cap /\ cap * 2 > MaxCapacity
      /\ ret' = Throws("write", ret.arg, "out_of_range")
      /\ queue' = queue /\ cap' = cap /\ sent' = sent /\ wire' = wire
      /\ batch' = batch /\ out' = out
  BY Zenon DEF StoreFails, Ring!PushRefused, Ring!Idle, Ring!Throws, Throws
<1>2. ret.arg \in Nat
  BY DEF TypeOK, Results
<1>3. ret' \in Results /\ ret'.arg = ret.arg
  BY <1>1, <1>2, RingResults
<1>4. TypeOK'
  BY <1>1, <1>3 DEF TypeOK
<1>5. cap < ret.arg + Residue
  <2>1. Len(pending) \in Nat /\ Len(pending) # 0 /\ cap \in Nat
    BY <1>1, CapacityType DEF TypeOK
  <2>2. cap + Len(pending) <= ret.arg + Residue
    BY <1>1 DEF StoredOfChunk
  <2> QED
    BY <1>2, <2>1, <2>2, ResidueType
<1> QED
  BY <1>1, <1>3, <1>4, <1>5
     DEF Bounded, Local, RoomAfterFirst, LessThanMessage, StoredOfChunk

(* What can be read once the size of the body and a header are there: all  *)
(* of the header, as long as the buffer was not full or the size is taken. *)
LEMMA HeaderReads ==
  ASSUME ControlInv, HasHeader, NEW k \in Accesses, ~Succeeds(k)
  PROVE  k = 0 /\ Len(queue) = cap /\ Drop(queue, k) = queue
<1>1. /\ queue \in Seq(Byte) /\ Len(queue) \in Nat /\ cap \in Nat
      /\ Len(queue) <= cap /\ Len(queue) >= 11
  BY CapacityType DEF ControlInv, TypeOK, Bounded, HasHeader, HeaderSize
<1>2. k \in 0..Len(queue) /\ k \in {0, 2, 4, 8, 10}
  BY <1>1 DEF Accesses
<1> DEFINE rest == Drop(queue, k)
<1>3. rest \in Seq(Byte) /\ Len(rest) = Len(queue) - k
  BY <1>1, <1>2, DropType
<1>4. \/ k \in {0, 2, 8} /\ ~(2 <= Len(rest) /\ Len(rest) < cap)
      \/ k = 4 /\ ~(4 <= Len(rest) /\ Len(rest) < cap)
      \/ k = 10 /\ rest = <<>>
  BY Zenon DEF Succeeds, Ring!IntReadable
<1> HIDE DEF rest
<1>5. k # 4 /\ k # 2 /\ k # 8
  BY <1>1, <1>3, <1>4
<1>6. k # 10
  <2>1. ASSUME k = 10 PROVE FALSE
    <3>1. Len(rest) >= 1
      BY <1>1, <1>3, <2>1
    <3>2. rest = <<>>
      BY <1>4, <2>1
    <3> QED
      BY <3>1, <3>2
  <2> QED
    BY <2>1
<1>7. k = 0 /\ Len(queue) = cap
  BY <1>1, <1>2, <1>3, <1>4, <1>5, <1>6
<1>8. Drop(queue, 0) = queue
  BY <1>1, SubSeqFull DEF Drop
<1> QED
  BY <1>7, <1>8

LEMMA ParseFailsFirst ==
  ASSUME ControlInv, ParseFails
  PROVE  /\ pc = "parse" /\ pc' = "parseFailed"
         /\ Len(queue) = cap /\ batch = <<>> /\ batch' = <<>> /\ queue' = queue
         /\ cap' = cap /\ pending' = pending /\ ret' = ret /\ sent' = sent
         /\ wire' = wire /\ out' = out
<1>1. PICK k \in Accesses : ~Succeeds(k) /\ queue' = Drop(queue, k)
  BY DEF ParseFails
<1>2. /\ pc = "parse" /\ HasHeader /\ pc' = "parseFailed" /\ batch' = <<>>
      /\ cap' = cap /\ pending' = pending /\ ret' = ret /\ sent' = sent
      /\ wire' = wire /\ out' = out
  BY DEF ParseFails
<1>3. Len(queue) = cap /\ queue' = queue
  BY <1>1, <1>2, HeaderReads
<1>4. batch = <<>>
  <2>1. cap \in Nat
    BY CapacityType DEF ControlInv
  <2> QED
    BY <1>2, <1>3, <2>1 DEF ControlInv, RoomAfterFirst
<1> QED
  BY <1>2, <1>3, <1>4

LEMMA ParseOneControl ==
  ASSUME ControlInv, ParseOne PROVE ControlInv'
<1> USE DEF ControlInv
<1> DEFINE n == HeaderSize + BodySize
<1>1. /\ pc = "parse" /\ HasHeader /\ HasMessage /\ pc' = pc
      /\ batch' = Append(batch, FrontMessage) /\ queue' = Drop(queue, n)
      /\ cap' = cap /\ pending' = pending /\ ret' = ret /\ sent' = sent
      /\ wire' = wire /\ out' = out
  BY DEF ParseOne
<1>2. FrontMessage \in Messages /\ n \in 11..Len(queue) /\ queue \in Seq(Byte)
  BY <1>1, FrontType DEF TypeOK, HasMessage, HeaderSize
<1> HIDE DEF n
<1>3. Drop(queue, n) \in Seq(Byte) /\ Len(Drop(queue, n)) = Len(queue) - n
  <2>1. n \in 0..Len(queue)
    BY <1>2
  <2> QED
    BY <1>2, <2>1, DropType
<1>4. Append(batch, FrontMessage) \in Seq(Messages)
  BY <1>2, AppendProperties DEF TypeOK
<1>5. TypeOK'
  BY <1>1, <1>3, <1>4 DEF TypeOK
<1>6. Len(queue') < cap'
  BY <1>1, <1>2, <1>3, CapacityType DEF Bounded
<1>7. Bounded' /\ RoomAfterFirst'
  <2>1. Len(queue') \in Nat /\ cap' \in Nat
    BY <1>1, <1>5, CapacityType DEF TypeOK
  <2> QED
    BY <1>6, <2>1 DEF Bounded, RoomAfterFirst
<1> QED
  BY <1>1, <1>5, <1>7 DEF Local, LessThanMessage, StoredOfChunk

LEMMA ParseReturnsControl ==
  ASSUME ControlInv, ParseReturns PROVE ControlInv'
<1> USE DEF ControlInv
<1>1. /\ pc = "parse" /\ pc' = "idle" /\ out' = out \o batch /\ batch' = <<>>
      /\ ~(HasHeader /\ HasMessage)
      /\ queue' = queue /\ cap' = cap /\ pending' = pending /\ ret' = ret
      /\ sent' = sent /\ wire' = wire
  BY DEF ParseReturns, ringVars
<1>2. out \o batch \in Seq(Messages)
  BY ConcatProperties DEF TypeOK
<1>3. TypeOK'
  BY <1>1, <1>2 DEF TypeOK
<1>4. LessThanMessage'
  BY <1>1 DEF LessThanMessage, HasHeader, HasMessage, BodySize
<1> QED
  BY <1>1, <1>3, <1>4 DEF Bounded, Local, RoomAfterFirst, StoredOfChunk

LEMMA StepControl ==
  ASSUME ControlInv, [Next]_vars PROVE ControlInv'
<1> USE DEF ControlInv
<1>1. CASE \E n \in 1..MaxWrite : Receive(n)
  BY <1>1, ReceiveControl
<1>2. CASE StoreByte
  BY <1>2, StoreByteControl
<1>3. CASE StoreFails
  BY <1>3, StoreFailsControl
<1>4. CASE StartParse
  <2>1. /\ pc' = "parse" /\ pending = <<>> /\ pc = "write" /\ queue' = queue
        /\ cap' = cap /\ pending' = pending /\ ret' = ret /\ sent' = sent
        /\ wire' = wire /\ batch' = batch /\ out' = out
    BY <1>4 DEF StartParse, ringVars
  <2>2. TypeOK'
    BY <2>1 DEF TypeOK
  <2> QED
    BY <2>1, <2>2 DEF Bounded, Local, RoomAfterFirst, LessThanMessage, StoredOfChunk
<1>5. CASE ParseOne
  BY <1>5, ParseOneControl
<1>6. CASE ParseReturns
  BY <1>6, ParseReturnsControl
<1>7. CASE ParseFails
  <2>1. /\ pc' = "parseFailed" /\ pc = "parse" /\ batch' = <<>> /\ queue' = queue
        /\ cap' = cap /\ pending' = pending /\ ret' = ret /\ sent' = sent
        /\ wire' = wire /\ out' = out
    BY <1>7, ParseFailsFirst
  <2>2. TypeOK'
    BY <2>1 DEF TypeOK
  <2> QED
    BY <2>1, <2>2 DEF Bounded, Local, RoomAfterFirst, LessThanMessage, StoredOfChunk
<1>8. CASE UNCHANGED vars
  <2>1. /\ pc' = pc /\ batch' = batch /\ queue' = queue /\ cap' = cap
        /\ pending' = pending /\ ret' = ret /\ sent' = sent /\ wire' = wire /\ out' = out
    BY <1>8 DEF vars
  <2>2. TypeOK'
    BY <2>1 DEF TypeOK
  <2> QED
    BY <2>1, <2>2 DEF Bounded, Local, RoomAfterFirst, LessThanMessage, StoredOfChunk,
                      HasHeader, HasMessage, BodySize
<1>9. CASE Done
  BY <1>8, <1>9 DEF Done
<1> QED
  BY <1>1, <1>2, <1>3, <1>4, <1>5, <1>6, <1>7, <1>8, <1>9 DEF Next

LEMMA Control == Spec => []ControlInv
BY InitControl, StepControl, PTL DEF Spec

(***************************************************************************)
(* The buffer, the messages and the control state of the parser always     *)
(* have their types (stream_parser.hpp:19-71, stream_socket.cpp:39-59).    *)
(***************************************************************************)
THEOREM TypeCorrect == Spec => []TypeOK
<1>1. ControlInv => TypeOK
  BY DEF ControlInv
<1> QED
  BY Control, <1>1, PTL

(***************************************************************************)
(* parse throws only at the first access of a call, the peek that takes    *)
(* the full buffer for an empty one, in any byte order: none of the reads  *)
(* behind it can throw, and neither can a later iteration, as a message    *)
(* taken has left room (ring_buffer.hpp:158-185, 233-268,                  *)
(* stream_parser.hpp:35-63).                                               *)
(***************************************************************************)
THEOREM OnlyFirstAccessThrows == Spec => ParseThrowsFirst
<1>1. ControlInv /\ [Next]_vars
        => [pc = "parse" /\ pc' = "parseFailed"
              => Len(queue) = cap /\ batch = <<>> /\ queue' = queue]_vars
  <2> SUFFICES ASSUME ControlInv, Next, pc = "parse", pc' = "parseFailed"
               PROVE  Len(queue) = cap /\ batch = <<>> /\ queue' = queue
    BY DEF vars
  <2>1. ASSUME ~ParseFails PROVE FALSE
    <3>1. ~(\E n \in 1..MaxWrite : Receive(n)) /\ ~StoreByte /\ ~StoreFails /\ ~StartParse
      BY DEF Receive, StoreByte, StoreFails, StartParse
    <3>2. ~ParseOne /\ ~ParseReturns /\ ~Done
      BY DEF ParseOne, ParseReturns, Done, vars
    <3> QED
      BY <2>1, <3>1, <3>2 DEF Next
  <2> QED
    BY <2>1, ParseFailsFirst
<1> QED
  BY Control, <1>1, PTL DEF Spec, ParseThrowsFirst

(***************************************************************************)
(* The capacities the buffer can take, when doubling reaches the maximum   *)
(* exactly, as 8 KB and 512 KB do.                                         *)
(***************************************************************************)
Doubling(Sizes) ==
  /\ InitCapacity \in Sizes
  /\ \A c \in Sizes : c # MaxCapacity => 2 * c \in Sizes
ReachesMaximum == \E Sizes \in SUBSET (1..MaxCapacity) : Doubling(Sizes)

GrowthInv(Sizes) == cap \in Sizes /\ RefusesOnlyLongChunks

LEMMA StepGrowth ==
  ASSUME NEW Sizes \in SUBSET (1..MaxCapacity), Doubling(Sizes),
         ControlInv, GrowthInv(Sizes), [Next]_vars
  PROVE  GrowthInv(Sizes)'
<1> USE DEF GrowthInv, RefusesOnlyLongChunks
<1>0. cap \in Nat /\ MaxCapacity \in Nat
  BY CapacityType DEF ControlInv
<1>1. CASE \E n \in 1..MaxWrite : Receive(n)
  BY <1>1 DEF Receive, Ring!StartWrite
<1>2. CASE StoreByte
  <2>1. pc' = "write"
    BY <1>2 DEF StoreByte
  <2>2. CASE cap' = cap
    BY <2>1, <2>2
  <2>3. CASE cap' # cap
    <3>1. cap * 2 <= MaxCapacity /\ cap' = cap * 2
      BY <1>2, <2>3 DEF StoreByte, Ring!PushByte
    <3>2. cap # MaxCapacity /\ cap' = 2 * cap
      BY <1>0, <3>1, CapacityType DEF ControlInv
    <3> QED
      BY <2>1, <3>2 DEF Doubling
  <2> QED
    BY <2>2, <2>3
<1>3. CASE StoreFails
  <2>1. /\ cap * 2 > MaxCapacity /\ ret'.arg = ret.arg /\ cap < ret.arg + Residue
        /\ cap' = cap
    BY <1>3, StoreFailsControl DEF StoreFails, Ring!PushRefused
  <2>2. cap = MaxCapacity
    <3>1. ASSUME cap # MaxCapacity PROVE FALSE
      <4>1. 2 * cap \in 1..MaxCapacity
        BY <3>1 DEF Doubling
      <4> QED
        BY <1>0, <2>1, <4>1
    <3> QED
      BY <3>1
  <2> QED
    BY <2>1, <2>2, ResidueType DEF Residue, ControlInv, TypeOK, Results
<1>4. CASE StartParse
  BY <1>4 DEF StartParse, ringVars
<1>5. CASE ParseOne
  BY <1>5 DEF ParseOne
<1>6. CASE ParseReturns
  BY <1>6 DEF ParseReturns, ringVars
<1>7. CASE ParseFails
  BY <1>7, ParseFailsFirst
<1>8. CASE UNCHANGED vars
  BY <1>8 DEF vars
<1>9. CASE Done
  BY <1>8, <1>9 DEF Done
<1> QED
  BY <1>1, <1>2, <1>3, <1>4, <1>5, <1>6, <1>7, <1>8, <1>9 DEF Next

(***************************************************************************)
(* Where doubling reaches the maximum, a chunk is refused only when it is  *)
(* longer than the whole buffer less the largest incomplete message        *)
(* (stream_parser.hpp:27-30, 47-50).                                       *)
(***************************************************************************)
THEOREM OnlyLongChunksRefused ==
  ASSUME ReachesMaximum
  PROVE  Spec => []RefusesOnlyLongChunks
<1>1. PICK Sizes \in SUBSET (1..MaxCapacity) : Doubling(Sizes)
  BY DEF ReachesMaximum
<1>2. Init => GrowthInv(Sizes)
  BY <1>1 DEF Init, Ring!Init, GrowthInv, RefusesOnlyLongChunks, Doubling
<1>3. ControlInv /\ GrowthInv(Sizes) /\ [Next]_vars => GrowthInv(Sizes)'
  BY <1>1, StepGrowth
<1>4. GrowthInv(Sizes) => RefusesOnlyLongChunks
  BY DEF GrowthInv
<1> QED
  BY Control, <1>2, <1>3, <1>4, PTL DEF Spec

-----------------------------------------------------------------------------
(***************************************************************************)
(* What the parser finds at the front of the buffer, when the bytes there  *)
(* are the first ones of the messages `todo`.                              *)
(***************************************************************************)
LEMMA StreamsConcat ==
  \A s, t \in Seq(Sendable) : s \o t \in Seq(Sendable)
BY ConcatProperties

LEMMA BytesConcat ==
  \A a, b \in Seq(Byte) : a \o b \in Seq(Byte) /\ Len(a \o b) = Len(a) + Len(b)
BY ConcatProperties

LEMMA FirstMessage ==
  ASSUME NEW todo \in Seq(Sendable), todo # <<>>
  PROVE  \E m \in Sendable, rest \in Seq(Sendable) :
           /\ todo = <<m>> \o rest
           /\ EncodeAll(todo) = Encode(m) \o EncodeAll(rest)
<1> DEFINE m == todo[1]
           rest == Drop(todo, 1)
<1>1. m \in Sendable /\ <<m>> \in Seq(Sendable) /\ 1 \in 0..Len(todo)
  OBVIOUS
<1>2. rest \in Seq(Sendable) /\ Take(todo, 1) \o rest = todo
  BY <1>1, DropType, TakeDrop
<1>3. Take(todo, 1) = <<m>>
  <2>1. /\ Take(todo, 1) \in Seq(Sendable) /\ Len(Take(todo, 1)) = 1
        /\ \A i \in 1..1 : Take(todo, 1)[i] = todo[i]
    BY <1>1, TakeType
  <2>2. \A i \in 1..1 : Take(todo, 1)[i] = <<m>>[i]
    BY <2>1
  <2>3. Len(<<m>>) = 1
    OBVIOUS
  <2> HIDE DEF m
  <2> QED
    BY <1>1, <2>1, <2>2, <2>3, SeqEqual
<1> HIDE DEF m, rest
<1>4. EncodeAll(todo) = EncodeAll(<<m>>) \o EncodeAll(rest)
  <2>1. EncodeAll(<<m>> \o rest) = EncodeAll(<<m>>) \o EncodeAll(rest)
    BY <1>1, <1>2, EncodeAllConcat
  <2> QED
    BY <1>2, <1>3, <2>1
<1> QED
  BY <1>1, <1>2, <1>3, <1>4, EncodeAllOne

(* A field that lies in the first n bytes of a \o b lies in a.             *)
LEMMA AtFront ==
  ASSUME NEW S, NEW a \in Seq(S), NEW b \in Seq(S), NEW f \in Seq(S), NEW k \in Nat,
         At(a \o b, k, f), k + Len(f) <= Len(a)
  PROVE  At(a, k, f)
<1>1. ASSUME NEW i \in 1..Len(f) PROVE a[k + i] = f[i]
  <2>1. k + i \in 1..Len(a) + Len(b) /\ k + i <= Len(a)
    OBVIOUS
  <2>2. (a \o b)[k + i] = a[k + i]
    BY <2>1, ConcatProperties
  <2> QED
    BY <2>2 DEF At
<1> QED
  BY <1>1 DEF At

LEMMA FrontIsFirst ==
  ASSUME WireBigEndian = HostBigEndian,
         queue \in Seq(Byte), HasHeader, NEW m \in Sendable,
         NEW r \in Seq(Byte), NEW e \in Seq(Byte), queue \o r = Encode(m) \o e
  PROVE  /\ BodySize = Len(m.body)
         /\ HasMessage => /\ FrontMessage = m
                          /\ Drop(queue, HeaderSize + BodySize) \o r = e
<1> DEFINE s == Encode(m)
           f1 == OnWire(Len(m.body), 2)
           f2 == OnWire(m.serviceId, 2)
           f3 == OnWire(m.msgId, 4)
           f4 == OnWire(m.msgSeq, 2)
           f5 == <<m.stageIndex>>
           f6 == m.body
<1>1. /\ s \in Seq(Byte) /\ Len(s) = 11 + Len(f6)
      /\ At(s, 0, f1) /\ At(s, 2, f2) /\ At(s, 4, f3) /\ At(s, 8, f4)
      /\ At(s, 10, f5) /\ At(s, 11, f6)
  BY MessageLayout DEF HeaderSize
<1>2. /\ m \in Messages
      /\ m.serviceId \in Words(2) /\ m.msgId \in Words(4) /\ m.msgSeq \in Words(2)
      /\ m.stageIndex \in Byte /\ Len(m.body) \in Words(2)
      /\ 2 \in RingWidths /\ 4 \in RingWidths
  BY SendableFields DEF RingWidths
<1>3. /\ f1 \in Seq(Byte) /\ f2 \in Seq(Byte) /\ f3 \in Seq(Byte)
      /\ f4 \in Seq(Byte) /\ f5 \in Seq(Byte) /\ f6 \in Seq(Byte)
      /\ Len(f1) = 2 /\ Len(f2) = 2 /\ Len(f3) = 4 /\ Len(f4) = 2 /\ Len(f5) = 1
  BY SendableFields, OnWireType DEF RingWidths
<1> HIDE DEF s, f1, f2, f3, f4, f5, f6
<1>4. ASSUME NEW f \in Seq(Byte), NEW k \in Nat, At(s, k, f), k + Len(f) <= Len(queue)
      PROVE  At(queue, k, f)
  <2>1. At(s \o e, k, f)
    <3>1. \A g \in Seq(Byte), j \in Nat : At(s, j, g) => At(s \o e, j, g)
      BY <1>1, AtConcat
    <3> QED
      BY <1>4, <3>1
  <2>2. At(queue \o r, k, f)
    BY <2>1 DEF s
  <2> QED
    BY <1>4, <2>2, AtFront
<1>5. Len(queue) \in Nat /\ Len(queue) >= 11
  BY DEF HasHeader, HeaderSize
<1>6. /\ 0 \in Nat /\ 2 \in Nat /\ 4 \in Nat /\ 8 \in Nat /\ 10 \in Nat /\ 11 \in Nat
      /\ At(queue, 0, f1) /\ At(queue, 2, f2) /\ At(queue, 4, f3)
      /\ At(queue, 8, f4) /\ At(queue, 10, f5)
  <2>1. 0 \in Nat /\ 2 \in Nat /\ 4 \in Nat /\ 8 \in Nat /\ 10 \in Nat /\ 11 \in Nat
    OBVIOUS
  <2>2. /\ 0 + Len(f1) <= Len(queue) /\ 2 + Len(f2) <= Len(queue)
        /\ 4 + Len(f3) <= Len(queue) /\ 8 + Len(f4) <= Len(queue)
        /\ 10 + Len(f5) <= Len(queue)
    BY <1>3, <1>5
  <2> QED
    BY <1>1, <1>3, <1>4, <2>1, <2>2, Zenon
<1>7. IntAt(queue, 0 + 1, 2) = Len(m.body)
  BY <1>2, <1>6, ReadOnWire DEF f1
<1>8. IntAt(queue, 2 + 1, 2) = m.serviceId
  BY <1>2, <1>6, ReadOnWire DEF f2
<1>9. IntAt(queue, 4 + 1, 4) = m.msgId
  BY <1>2, <1>6, ReadOnWire DEF f3
<1>10. IntAt(queue, 8 + 1, 2) = m.msgSeq
  BY <1>2, <1>6, ReadOnWire DEF f4
<1>11. BodySize = Len(m.body)
  BY <1>7 DEF BodySize
<1>12. ASSUME HasMessage PROVE FrontMessage = m
  <2>1. At(queue, 11, f6)
    <3>1. 11 + Len(f6) <= Len(queue)
      BY <1>3, <1>11, <1>12 DEF HasMessage, HeaderSize, f6
    <3> QED
      BY <1>1, <1>3, <1>4, <1>6, <3>1
  <2>2. SubSeq(queue, 11 + 1, 11 + Len(f6)) = f6
    BY <1>3, <1>6, <2>1, AtSubSeq
  <2>3. queue[11] = m.stageIndex
    BY <1>6 DEF At, f5
  <2>4. /\ IntAt(queue, 3, 2) = m.serviceId /\ IntAt(queue, 5, 4) = m.msgId
        /\ IntAt(queue, 9, 2) = m.msgSeq
    BY <1>8, <1>9, <1>10
  <2>5. SubSeq(queue, 11 + 1, 11 + BodySize) = m.body
    BY <1>11, <2>2 DEF f6
  <2>6. FrontMessage = [serviceId |-> m.serviceId, msgId |-> m.msgId,
                        msgSeq |-> m.msgSeq, stageIndex |-> m.stageIndex,
                        body |-> m.body]
    BY <2>3, <2>4, <2>5, Zenon DEF FrontMessage, HeaderSize
  <2> QED
    BY <1>2, <2>6 DEF Messages
<1>13. ASSUME HasMessage PROVE Drop(queue, HeaderSize + BodySize) \o r = e
  <2> DEFINE n == HeaderSize + BodySize
             q == Drop(queue, n)
             p == Take(queue, n)
  <2>1. n = Len(s) /\ n \in 0..Len(queue)
    BY <1>1, <1>3, <1>5, <1>11, <1>13 DEF HasMessage, HeaderSize, f6
  <2>2. /\ p \in Seq(Byte) /\ Len(p) = n /\ q \in Seq(Byte) /\ p \o q = queue
    BY <2>1, TakeType, DropType, TakeDrop
  <2> HIDE DEF n, q, p
  <2>3. p \o (q \o r) = s \o e
    <3>1. (p \o q) \o r = p \o (q \o r)
      BY <2>2, BytesAssociate
    <3> QED
      BY <2>2, <3>1 DEF s
  <2>4. q \o r \in Seq(Byte)
    BY <2>2, BytesConcat
  <2>5. Drop(p \o (q \o r), Len(p)) = q \o r
    BY <2>2, <2>4, DropOfConcat
  <2>6. Drop(s \o e, Len(s)) = e
    BY <1>1, DropOfConcat
  <2> QED
    BY <2>1, <2>2, <2>3, <2>5, <2>6 DEF q, n
<1> QED
  BY <1>11, <1>12, <1>13

-----------------------------------------------------------------------------
(***************************************************************************)
(* The invariant of the stream: what the client sent is what is delivered  *)
(* or in the list of parse(), and messages still to come, `todo`; and the  *)
(* bytes that are on their way, from the buffer back to the wire, are      *)
(* exactly those of `todo`.  Of the chunk of a write that failed, the rest *)
(* (`lost`) is in no variable.                                             *)
(***************************************************************************)
Underway(todo, lost) ==
  /\ sent = (out \o batch) \o todo
  /\ pc # "writeFailed" => lost = pending
  /\ queue \o (lost \o wire) = EncodeAll(todo)

StreamInv ==
  /\ out \in Seq(Sendable) /\ batch \in Seq(Sendable)
  /\ \E todo \in Seq(Sendable), lost \in Seq(Byte) : Underway(todo, lost)

LEMMA InitStream == Init => StreamInv
<1> SUFFICES ASSUME Init PROVE StreamInv
  OBVIOUS
<1>1. /\ out = <<>> /\ batch = <<>> /\ pending = <<>> /\ queue = <<>>
      /\ wire = EncodeAll(sent) /\ sent \in Seq(Sendable)
  BY StreamsAreSendable DEF Init, Ring!Init
<1>2. wire \in Seq(Byte)
  BY <1>1, EncodeAllConcat
<1>3. sent = (<<>> \o <<>>) \o sent
  BY <1>1
<1>4. <<>> \o (<<>> \o wire) = wire
  BY <1>2
<1>5. Underway(sent, <<>>)
  BY <1>1, <1>3, <1>4 DEF Underway
<1>6. <<>> \in Seq(Byte) /\ <<>> \in Seq(Sendable)
  OBVIOUS
<1> QED
  BY <1>1, <1>5, <1>6 DEF StreamInv

LEMMA ReceiveStream ==
  ASSUME ControlInv, StreamInv, NEW n \in 1..MaxWrite, Receive(n) PROVE StreamInv'
<1>1. /\ pc = "idle" /\ n \in 0..Len(wire) /\ pending = <<>> /\ pending' = Take(wire, n)
      /\ wire' = Drop(wire, n) /\ wire \in Seq(Byte) /\ queue' = queue
      /\ sent' = sent /\ batch' = batch /\ out' = out
  BY DEF Receive, Ring!StartWrite, Ring!Idle, ControlInv, TypeOK
<1>2. PICK todo \in Seq(Sendable) : Underway(todo, <<>>)
  BY <1>1 DEF StreamInv, Underway
<1>3. PICK chunk \in Seq(Byte) : chunk = Take(wire, n) /\ chunk \o Drop(wire, n) = wire
  BY <1>1, TakeType, TakeDrop
<1>4. <<>> \o wire = wire
  BY <1>1
<1>5. Underway(todo, chunk)'
  BY <1>1, <1>2, <1>3, <1>4 DEF Underway
<1> QED
  BY <1>1, <1>3, <1>5 DEF StreamInv

LEMMA StoreByteStream ==
  ASSUME ControlInv, StreamInv, StoreByte PROVE StreamInv'
<1>1. /\ pc = "write" /\ pc' = pc /\ pending # <<>>
      /\ queue' = Append(queue, Head(pending)) /\ pending' = Tail(pending)
      /\ sent' = sent /\ wire' = wire /\ batch' = batch /\ out' = out
  BY DEF StoreByte, Ring!PushByte, Ring!Idle
<1>2. PICK todo \in Seq(Sendable) : Underway(todo, pending)
  BY <1>1 DEF StreamInv, Underway
<1>3. /\ queue \in Seq(Byte) /\ pending \in Seq(Byte) /\ wire \in Seq(Byte)
  BY DEF ControlInv, TypeOK
<1>4. PICK b \in Seq(Byte), t \in Seq(Byte) :
        pending = b \o t /\ queue' = queue \o b /\ pending' = t
  <2>1. /\ Head(pending) \in Byte /\ <<Head(pending)>> \in Seq(Byte)
        /\ Tail(pending) \in Seq(Byte)
        /\ pending = <<Head(pending)>> \o Tail(pending)
    BY <1>1, <1>3
  <2>2. Append(queue, Head(pending)) = queue \o <<Head(pending)>>
    BY <1>3, <2>1, AppendIsConcat
  <2> QED
    BY <1>1, <2>1, <2>2, Zenon
<1>5. (queue \o b) \o (t \o wire) = queue \o (pending \o wire)
  <2> DEFINE z == t \o wire
  <2>1. z \in Seq(Byte)
    BY <1>3, BytesConcat
  <2> HIDE DEF z
  <2>2. (queue \o b) \o z = queue \o (b \o z)
    <3>1. queue \in Seq(Byte) /\ b \in Seq(Byte) /\ z \in Seq(Byte)
      BY <1>3, <2>1
    <3> QED
      BY <3>1, BytesAssociate, Zenon
  <2>3. (b \o t) \o wire = b \o (t \o wire)
    BY <1>3, BytesAssociate
  <2> QED
    BY <1>4, <2>2, <2>3, Zenon DEF z
<1>6. Underway(todo, t)'
  BY <1>1, <1>2, <1>4, <1>5 DEF Underway
<1> QED
  BY <1>1, <1>6 DEF StreamInv

LEMMA ParseOneStream ==
  ASSUME WireBigEndian = HostBigEndian, ControlInv, StreamInv, ParseOne
  PROVE  StreamInv'
<1>1. /\ pc = "parse" /\ HasHeader /\ HasMessage /\ pc' = pc
      /\ batch' = Append(batch, FrontMessage)
      /\ queue' = Drop(queue, HeaderSize + BodySize)
      /\ pending' = pending /\ sent' = sent /\ wire' = wire /\ out' = out
  BY DEF ParseOne
<1>2. PICK todo \in Seq(Sendable) : Underway(todo, pending)
  BY <1>1 DEF StreamInv, Underway
<1> DEFINE r == pending \o wire
<1>3. /\ queue \in Seq(Byte) /\ pending \in Seq(Byte) /\ wire \in Seq(Byte)
      /\ r \in Seq(Byte) /\ queue \o r = EncodeAll(todo)
  BY <1>2, BytesConcat DEF ControlInv, TypeOK, Underway
<1>4. Len(queue) \in Nat /\ Len(queue) >= 11
  BY <1>1, <1>3 DEF HasHeader, HeaderSize
<1> HIDE DEF r
<1>5. todo # <<>>
  <2>1. ASSUME todo = <<>> PROVE FALSE
    <3>1. queue \o r = <<>>
      BY <1>3, <2>1, EncodeAllEmpty
    <3>2. Len(queue \o r) = Len(queue) + Len(r) /\ Len(r) \in Nat
      BY <1>3, BytesConcat
    <3>3. Len(queue \o r) = 0
      BY <3>1
    <3> QED
      BY <1>4, <3>2, <3>3
  <2> QED
    BY <2>1
<1>6. PICK m \in Sendable, rest \in Seq(Sendable) :
        /\ todo = <<m>> \o rest
        /\ EncodeAll(todo) = Encode(m) \o EncodeAll(rest)
  BY <1>5, FirstMessage
<1>7. EncodeAll(rest) \in Seq(Byte)
  BY EncodeAllConcat
<1>8. FrontMessage = m /\ Drop(queue, HeaderSize + BodySize) \o r = EncodeAll(rest)
  <2>1. queue \o r = Encode(m) \o EncodeAll(rest)
    BY <1>3, <1>6
  <2> QED
    BY <1>1, <1>3, <1>7, <2>1, FrontIsFirst
<1>9. /\ batch \in Seq(Sendable) /\ out \in Seq(Sendable)
      /\ sent = (out \o batch) \o todo
  BY <1>2 DEF StreamInv, Underway
<1>10. /\ batch' \in Seq(Sendable)
       /\ sent = (out \o batch') \o rest
  <2>1. batch' = batch \o <<m>> /\ <<m>> \in Seq(Sendable)
    BY <1>1, <1>8, <1>9, AppendIsConcat
  <2>2. batch \o <<m>> \in Seq(Sendable) /\ out \o batch \in Seq(Sendable)
    BY <1>9, <2>1, StreamsConcat
  <2>3. (out \o batch) \o (<<m>> \o rest) = ((out \o batch) \o <<m>>) \o rest
    BY <2>1, <2>2, StreamsAssociate, Zenon
  <2>4. (out \o batch) \o <<m>> = out \o (batch \o <<m>>)
    BY <1>9, <2>1, StreamsAssociate, Zenon
  <2> QED
    BY <1>6, <1>9, <2>1, <2>2, <2>3, <2>4, Zenon
<1>11. Underway(rest, pending)'
  BY <1>1, <1>8, <1>10 DEF Underway, r
<1> QED
  BY <1>1, <1>3, <1>9, <1>10, <1>11 DEF StreamInv

LEMMA ParseReturnsStream ==
  ASSUME ControlInv, StreamInv, ParseReturns PROVE StreamInv'
<1>1. /\ pc = "parse" /\ pc' = "idle" /\ out' = out \o batch /\ batch' = <<>>
      /\ queue' = queue /\ pending' = pending /\ sent' = sent /\ wire' = wire
  BY DEF ParseReturns, ringVars
<1>2. PICK todo \in Seq(Sendable) : Underway(todo, pending)
  BY <1>1 DEF StreamInv, Underway
<1>3. out \o batch \in Seq(Sendable) /\ <<>> \in Seq(Sendable)
  BY StreamsConcat DEF StreamInv
<1>4. (out \o batch) \o <<>> = out \o batch
  BY <1>3, ConcatEmptySeq
<1>5. Underway(todo, pending)'
  BY <1>1, <1>2, <1>4 DEF Underway
<1> QED
  BY <1>1, <1>3, <1>5 DEF StreamInv, ControlInv, TypeOK

LEMMA ParseFailsStream ==
  ASSUME ControlInv, StreamInv, ParseFails PROVE StreamInv'
<1>1. /\ pc = "parse" /\ pc' = "parseFailed" /\ batch' = <<>> /\ out' = out
      /\ queue' = queue /\ pending' = pending /\ sent' = sent /\ wire' = wire
  BY ParseFailsFirst
<1>2. batch = <<>>
  BY ParseFailsFirst
<1>3. PICK todo \in Seq(Sendable) : Underway(todo, pending)
  BY <1>1 DEF StreamInv, Underway
<1>4. Underway(todo, pending)'
  BY <1>1, <1>2, <1>3 DEF Underway
<1> QED
  BY <1>1, <1>2, <1>4 DEF StreamInv, ControlInv, TypeOK

LEMMA StepStream ==
  ASSUME WireBigEndian = HostBigEndian, ControlInv, StreamInv, [Next]_vars
  PROVE  StreamInv'
<1>1. CASE \E n \in 1..MaxWrite : Receive(n)
  BY <1>1, ReceiveStream
<1>2. CASE StoreByte
  BY <1>2, StoreByteStream
<1>3. CASE StoreFails
  <2>1. /\ pc' = "writeFailed" /\ queue' = queue /\ sent' = sent /\ wire' = wire
        /\ batch' = batch /\ out' = out
    BY <1>3 DEF StoreFails, Ring!PushRefused
  <2>2. PICK todo \in Seq(Sendable), lost \in Seq(Byte) : Underway(todo, lost)
    BY DEF StreamInv
  <2>3. Underway(todo, lost)'
    BY <2>1, <2>2 DEF Underway
  <2> QED
    BY <2>1, <2>3 DEF StreamInv
<1>4. CASE StartParse
  BY <1>4 DEF StartParse, ringVars, StreamInv, Underway
<1>5. CASE ParseOne
  BY <1>5, ParseOneStream
<1>6. CASE ParseReturns
  BY <1>6, ParseReturnsStream
<1>7. CASE ParseFails
  BY <1>7, ParseFailsStream
<1>8. CASE UNCHANGED vars
  BY <1>8 DEF vars, StreamInv, Underway
<1>9. CASE Done
  BY <1>8, <1>9 DEF Done
<1> QED
  BY <1>1, <1>2, <1>3, <1>4, <1>5, <1>6, <1>7, <1>8, <1>9 DEF Next

LEMMA TheStream == ASSUME WireBigEndian = HostBigEndian PROVE Spec => []StreamInv
<1>1. ControlInv /\ StreamInv /\ [Next]_vars => StreamInv'
  BY StepStream
<1> QED
  BY Control, InitStream, <1>1, PTL DEF Spec

(***************************************************************************)
(* The stream of the client is cut in two: what has been received is what  *)
(* is parsed, what is stored and what the write call holds or has lost.    *)
(***************************************************************************)
LEMMA ReceivedIs ==
  ASSUME ControlInv, StreamInv
  PROVE  \E todo \in Seq(Sendable), lost \in Seq(Byte) :
           /\ Underway(todo, lost)
           /\ Received = (EncodeAll(out \o batch) \o queue) \o lost
<1>1. PICK todo \in Seq(Sendable), lost \in Seq(Byte) : Underway(todo, lost)
  BY DEF StreamInv
<1> DEFINE d == EncodeAll(out \o batch)
           e == EncodeAll(todo)
           a == (d \o queue) \o lost
<1>2. out \o batch \in Seq(Sendable)
  BY StreamsConcat DEF StreamInv
<1>3. d \in Seq(Byte) /\ EncodeAll(sent) = d \o e
  BY <1>1, <1>2, EncodeAllConcat DEF Underway
<1>4. /\ queue \in Seq(Byte) /\ wire \in Seq(Byte) /\ e = queue \o (lost \o wire)
  BY <1>1 DEF ControlInv, TypeOK, Underway
<1> HIDE DEF d, e
<1>5. /\ d \o queue \in Seq(Byte) /\ a \in Seq(Byte) /\ lost \o wire \in Seq(Byte)
  BY <1>3, <1>4, BytesConcat
<1>6. EncodeAll(sent) = a \o wire
  <2> DEFINE y == d \o queue
             z == lost \o wire
  <2>1. y \in Seq(Byte) /\ z \in Seq(Byte)
    BY <1>5
  <2>2. d \o (queue \o z) = y \o z
    <3> HIDE DEF z
    <3> QED
      BY <1>3, <1>4, <2>1, BytesAssociate
  <2>3. y \o z = (y \o lost) \o wire
    <3> HIDE DEF y
    <3> QED
      BY <1>4, <2>1, BytesAssociate
  <2> QED
    BY <1>3, <1>4, <2>2, <2>3, Zenon
<1> HIDE DEF a
<1>7. Received = a
  <2>1. Len(a \o wire) - Len(wire) = Len(a)
    <3>1. Len(a \o wire) = Len(a) + Len(wire) /\ Len(a) \in Nat /\ Len(wire) \in Nat
      BY <1>4, <1>5, BytesConcat
    <3> QED
      BY <3>1
  <2>2. Take(a \o wire, Len(a)) = a
    BY <1>4, <1>5, DropOfConcat
  <2> QED
    BY <1>6, <2>1, <2>2 DEF Received
<1> QED
  BY <1>1, <1>7 DEF a, d

LEMMA PrefixOfConcat ==
  ASSUME NEW S, NEW s \in Seq(S), NEW t \in Seq(S)
  PROVE  IsPrefix(s, s \o t)
<1>1. Take(s \o t, Len(s)) = s /\ Take(s, Len(s)) = s
  BY DropOfConcat, SubSeqFull DEF Take
<1>2. Len(s) <= Len(s \o t)
  OBVIOUS
<1> QED
  BY <1>1, <1>2 DEF IsPrefix, Take

(***************************************************************************)
(* However the network cuts the stream, what a parser of the client's byte *)
(* order delivers is what was sent, in order and field by field            *)
(* (stream_parser.hpp:27-71).                                              *)
(***************************************************************************)
THEOREM InOrder ==
  ASSUME WireBigEndian = HostBigEndian
  PROVE  Spec => []DeliveredInOrder
<1>1. StreamInv => DeliveredInOrder
  <2> SUFFICES ASSUME StreamInv PROVE DeliveredInOrder
    OBVIOUS
  <2>1. PICK todo \in Seq(Sendable) : sent = (out \o batch) \o todo
    BY DEF StreamInv, Underway
  <2>2. out \o batch \in Seq(Sendable)
    BY StreamsConcat DEF StreamInv
  <2> QED
    BY <2>1, <2>2, PrefixOfConcat DEF DeliveredInOrder
<1> QED
  BY TheStream, <1>1, PTL

(***************************************************************************)
(* Every byte received is in a message delivered, in the list of parse(),  *)
(* in the buffer or in the write call, and a write that throws loses only  *)
(* the rest of its chunk (stream_parser.hpp:27-71, ring_buffer.hpp:142-    *)
(* 156).                                                                   *)
(***************************************************************************)
THEOREM NoByteLost ==
  ASSUME WireBigEndian = HostBigEndian
  PROVE  Spec => []NothingLost
<1>1. ControlInv /\ StreamInv => NothingLost
  <2> SUFFICES ASSUME ControlInv, StreamInv PROVE NothingLost
    OBVIOUS
  <2>1. PICK todo \in Seq(Sendable), lost \in Seq(Byte) :
               /\ Underway(todo, lost)
               /\ Received = (EncodeAll(out \o batch) \o queue) \o lost
    BY ReceivedIs
  <2>2. CASE pc # "writeFailed"
    BY <2>1, <2>2 DEF NothingLost, Underway
  <2>3. CASE pc = "writeFailed"
    <3>1. out \in Seq(Sendable) /\ out \o batch = out
      <4>1. batch = <<>> /\ out \in Seq(Sendable)
        BY <2>3 DEF ControlInv, Local, StreamInv
      <4> QED
        BY <4>1, ConcatEmptySeq
    <3>2. EncodeAll(out) \o queue \in Seq(Byte)
      <4>1. EncodeAll(out) \in Seq(Byte) /\ queue \in Seq(Byte)
        BY <3>1, EncodeAllConcat DEF ControlInv, TypeOK
      <4> QED
        BY <4>1, BytesConcat
    <3>3. IsPrefix(EncodeAll(out) \o queue, (EncodeAll(out) \o queue) \o lost)
      <4> DEFINE a == EncodeAll(out) \o queue
      <4> HIDE DEF a
      <4>1. a \in Seq(Byte)
        BY <3>2 DEF a
      <4>2. IsPrefix(a, a \o lost)
        BY <4>1, PrefixOfConcat
      <4> QED
        BY <4>2 DEF a
    <3> QED
      BY <2>1, <2>3, <3>1, <3>3 DEF NothingLost
  <2> QED
    BY <2>2, <2>3
<1> QED
  BY Control, TheStream, <1>1, PTL

(***************************************************************************)
(* When onReceived has returned, the next message is not complete yet: no  *)
(* message waits for a later chunk to wake it up (stream_parser.hpp:35-71, *)
(* stream_socket.cpp:39-59).                                               *)
(***************************************************************************)
THEOREM Prompt ==
  ASSUME WireBigEndian = HostBigEndian
  PROVE  Spec => []PromptDelivery
<1>1. ControlInv /\ StreamInv => PromptDelivery
  <2> SUFFICES ASSUME ControlInv, StreamInv, pc = "idle", Len(out) < Len(sent)
               PROVE  Len(EncodeAll(Take(sent, Len(out) + 1))) > Len(Received)
    BY DEF PromptDelivery
  <2>1. PICK todo \in Seq(Sendable), lost \in Seq(Byte) :
               /\ Underway(todo, lost)
               /\ Received = (EncodeAll(out \o batch) \o queue) \o lost
    BY ReceivedIs
  <2>2. batch = <<>> /\ lost = <<>> /\ out \in Seq(Sendable) /\ out \o batch = out
    <3>1. batch = <<>> /\ pending = <<>> /\ out \in Seq(Sendable)
      BY DEF ControlInv, Local, StreamInv
    <3> QED
      BY <2>1, <3>1, ConcatEmptySeq DEF Underway
  <2>3. /\ queue \in Seq(Byte) /\ wire \in Seq(Byte)
        /\ sent = out \o todo /\ queue \o wire = EncodeAll(todo)
    <3>1. wire \in Seq(Byte) /\ <<>> \o wire = wire
      BY DEF ControlInv, TypeOK
    <3> QED
      BY <2>1, <2>2, <3>1 DEF ControlInv, TypeOK, Underway
  <2>4. todo # <<>>
    BY <2>2, <2>3, ConcatEmptySeq
  <2>5. PICK m \in Sendable, rest \in Seq(Sendable) :
               /\ todo = <<m>> \o rest
               /\ EncodeAll(todo) = Encode(m) \o EncodeAll(rest)
    BY <2>4, FirstMessage
  <2>6. /\ Encode(m) \in Seq(Byte) /\ Len(Encode(m)) = 11 + Len(m.body)
        /\ Len(m.body) \in Nat /\ EncodeAll(rest) \in Seq(Byte)
    BY MessageLayout, SendableFields, EncodeAllConcat DEF HeaderSize
  <2>7. Len(queue) \in Nat /\ Len(queue) < 11 + Len(m.body)
    <3>1. Len(queue) \in Nat
      BY <2>3
    <3>2. CASE ~HasHeader
      BY <2>6, <3>1, <3>2 DEF HasHeader, HeaderSize
    <3>3. CASE HasHeader
      <4>1. queue \o wire = Encode(m) \o EncodeAll(rest)
        BY <2>3, <2>5
      <4>2. BodySize = Len(m.body)
        BY <2>3, <2>6, <3>3, <4>1, FrontIsFirst
      <4>3. ~(Len(queue) >= Len(m.body) + 11)
        BY <3>3, <4>2 DEF ControlInv, LessThanMessage, HasMessage, HeaderSize
      <4> QED
        BY <2>6, <3>1, <4>3
    <3> QED
      BY <3>2, <3>3
  <2>8. EncodeAll(Take(sent, Len(out) + 1)) = EncodeAll(out) \o Encode(m)
    <3>1. <<m>> \in Seq(Sendable) /\ out \o <<m>> \in Seq(Sendable)
      BY <2>2, StreamsConcat
    <3>2. sent = (out \o <<m>>) \o rest
      BY <2>2, <2>3, <2>5, <3>1, StreamsAssociate, Zenon
    <3>3. Len(out \o <<m>>) = Len(out) + 1
      BY <2>2
    <3> DEFINE s == out \o <<m>>
    <3>4. s \in Seq(Sendable) /\ Len(s) = Len(out) + 1 /\ sent = s \o rest
      BY <3>1, <3>2, <3>3
    <3> HIDE DEF s
    <3>5. Take(s \o rest, Len(s)) = s
      BY <3>4, DropOfConcat
    <3>6. EncodeAll(Take(sent, Len(out) + 1)) = EncodeAll(out \o <<m>>)
      BY <3>4, <3>5, Zenon DEF s
    <3>7. EncodeAll(out \o <<m>>) = EncodeAll(out) \o EncodeAll(<<m>>)
      BY <2>2, <3>1, EncodeAllConcat
    <3> QED
      BY <3>6, <3>7, EncodeAllOne
  <2>9. EncodeAll(out) \in Seq(Byte) /\ Len(EncodeAll(out)) \in Nat
    BY <2>2, EncodeAllConcat
  <2>10. Len(Received) = Len(EncodeAll(out)) + Len(queue)
    <3>1. EncodeAll(out) \o queue \in Seq(Byte)
      BY <2>3, <2>9, BytesConcat
    <3>2. (EncodeAll(out) \o queue) \o <<>> = EncodeAll(out) \o queue
      BY <3>1, ConcatEmptySeq
    <3>3. Received = EncodeAll(out) \o queue
      BY <2>1, <2>2, <3>2
    <3> QED
      BY <2>3, <2>9, <3>3, BytesConcat
  <2>11. Len(EncodeAll(out) \o Encode(m)) = Len(EncodeAll(out)) + Len(Encode(m))
    BY <2>6, <2>9, BytesConcat
  <2> QED
    BY <2>6, <2>7, <2>8, <2>9, <2>10, <2>11
<1> QED
  BY Control, TheStream, <1>1, PTL

-----------------------------------------------------------------------------
(***************************************************************************)
(* onReceived implements the message stream: the steps of the buffer and   *)
(* of parse() stutter, its return delivers the list of parse(), and a      *)
(* throw is the failure of the session.                                    *)
(***************************************************************************)
LEMMA StepDelivers ==
  ASSUME WireBigEndian = HostBigEndian, ControlInv, StreamInv, [Next]_vars
  PROVE  [Stream!Next]_(Stream!streamVars)
<1> USE DEF Stream!streamVars, Stream!Next, Failed
<1>1. CASE \E n \in 1..MaxWrite : Receive(n)
  BY <1>1 DEF Receive
<1>2. CASE StoreByte
  BY <1>2 DEF StoreByte
<1>3. CASE StoreFails
  BY <1>3 DEF StoreFails, Stream!Fail
<1>4. CASE StartParse
  BY <1>4 DEF StartParse
<1>5. CASE ParseOne
  BY <1>5 DEF ParseOne
<1>6. CASE ParseReturns
  <2>1. /\ pc = "parse" /\ pc' = "idle" /\ out' = out \o batch /\ sent' = sent
    BY <1>6 DEF ParseReturns
  <2>2. out \in Seq(Sendable) /\ batch \in Seq(Sendable)
    BY DEF StreamInv
  <2>3. CASE batch = <<>>
    <3>1. out' = out
      BY <2>1, <2>2, <2>3, ConcatEmptySeq
    <3> QED
      BY <2>1, <3>1
  <2>4. CASE batch # <<>>
    <3>1. PICK todo \in Seq(Sendable) : sent = (out \o batch) \o todo
      BY DEF StreamInv, Underway
    <3> DEFINE d == out \o batch
    <3>2. d \in Seq(Sendable) /\ Len(d) = Len(out) + Len(batch)
      BY <2>2, ConcatProperties
    <3>3. Len(batch) \in Nat \ {0} /\ Len(out) \in Nat
      BY <2>2, <2>4
    <3> HIDE DEF d
    <3>4. Len(d \o todo) = Len(d) + Len(todo) /\ Len(todo) \in Nat /\ Len(d) \in Nat
      <4>1. Len(todo) \in Nat /\ Len(d) \in Nat
        BY <3>2
      <4>2. d \in Seq(Sendable) /\ todo \in Seq(Sendable)
        BY <3>2
      <4>3. Len(d \o todo) = Len(d) + Len(todo)
        BY <4>2
      <4> QED
        BY <4>1, <4>3
    <3>5. Len(d) \in Len(out) + 1..Len(sent)
      BY <3>1, <3>2, <3>3, <3>4 DEF d
    <3>6. SubSeq(d \o todo, 1, Len(d)) = d
      BY <3>2, DropOfConcat DEF Take
    <3>7. out' = SubSeq(sent, 1, Len(d))
      BY <2>1, <3>1, <3>6 DEF d
    <3>8. \E n \in Len(out) + 1..Len(sent) : out' = SubSeq(sent, 1, n)
      BY <3>5, <3>7, Zenon
    <3>9. ~Failed /\ ~Failed' /\ sent' = sent
      BY <2>1
    <3> QED
      BY <3>8, <3>9 DEF Stream!Deliver
  <2> QED
    BY <2>3, <2>4
<1>7. CASE ParseFails
  BY <1>7 DEF ParseFails, Stream!Fail
<1>8. CASE UNCHANGED vars
  BY <1>8 DEF vars
<1>9. CASE Done
  BY <1>8, <1>9 DEF Done
<1> QED
  BY <1>1, <1>2, <1>3, <1>4, <1>5, <1>6, <1>7, <1>8, <1>9 DEF Next

(***************************************************************************)
(* A session whose client writes integers in the byte order of the host    *)
(* gives out the client's messages whole, once and in order, until it is   *)
(* disconnected (stream_socket.cpp:39-59); that it gives out all of them   *)
(* in the end is left to the model checker.                                *)
(***************************************************************************)
THEOREM ImplementsStream ==
  ASSUME WireBigEndian = HostBigEndian
  PROVE  Spec => Stream!Spec
<1>1. Init => Stream!Init
  BY DEF Init, Stream!Init, Failed
<1>2. ControlInv /\ StreamInv /\ [Next]_vars => [Stream!Next]_(Stream!streamVars)
  BY StepDelivers
<1> QED
  BY Control, TheStream, <1>1, <1>2, PTL DEF Spec, Stream!Spec

(***************************************************************************)
(* What tests/test_stream_parser.hpp asserts of its stream (48) holds      *)
(* of every stream whose client writes integers in the byte order of the   *)
(* host: once all bytes are in and onReceived has returned, all messages   *)
(* are out.                                                                *)
(***************************************************************************)
THEOREM AllParsed ==
  ASSUME WireBigEndian = HostBigEndian
  PROVE  Spec => []ReceivedIsParsed
<1>1. ControlInv /\ StreamInv => ReceivedIsParsed
  <2> SUFFICES ASSUME ControlInv, StreamInv, pc = "idle", wire = <<>>
               PROVE  out = sent
    BY DEF ReceivedIsParsed
  <2>1. PICK todo \in Seq(Sendable) : Underway(todo, <<>>)
    BY DEF StreamInv, ControlInv, Local, Underway
  <2>2. /\ batch = <<>> /\ out \in Seq(Sendable) /\ out \o <<>> = out
        /\ queue \in Seq(Byte) /\ queue \o <<>> = queue /\ <<>> \in Seq(Byte)
    BY ConcatEmptySeq DEF ControlInv, TypeOK, Local, StreamInv
  <2>3. sent = out \o todo /\ queue = EncodeAll(todo)
    <3>1. <<>> \o <<>> = <<>>
      OBVIOUS
    <3> QED
      BY <2>1, <2>2, <3>1 DEF Underway
  <2>4. ASSUME todo # <<>> PROVE FALSE
    <3>1. PICK m \in Sendable, rest \in Seq(Sendable) :
                 EncodeAll(todo) = Encode(m) \o EncodeAll(rest)
      BY <2>4, FirstMessage
    <3>2. /\ Encode(m) \in Seq(Byte) /\ Len(Encode(m)) = 11 + Len(m.body)
          /\ Len(m.body) \in Nat /\ EncodeAll(rest) \in Seq(Byte)
      BY MessageLayout, SendableFields, EncodeAllConcat DEF HeaderSize
    <3>3. Len(queue) >= 11 + Len(m.body)
      <4>1. Len(EncodeAll(rest)) \in Nat
        BY <3>2
      <4> QED
        BY <2>3, <3>1, <3>2, <4>1, BytesConcat
    <3>4. HasHeader
      BY <2>2, <3>2, <3>3 DEF HasHeader, HeaderSize
    <3>5. BodySize = Len(m.body)
      <4>1. queue \o <<>> = Encode(m) \o EncodeAll(rest)
        BY <2>2, <2>3, <3>1
      <4> QED
        BY <2>2, <3>2, <3>4, <4>1, FrontIsFirst
    <3>6. HasMessage
      BY <2>2, <3>2, <3>3, <3>5 DEF HasMessage, HeaderSize
    <3> QED
      BY <3>4, <3>6 DEF ControlInv, LessThanMessage
  <2> QED
    BY <2>2, <2>3, <2>4
<1> QED
  BY Control, TheStream, <1>1, PTL

=============================================================================
