------------------------- MODULE BitConverterProofs -------------------------
(***************************************************************************)
(* What BitConverter computes, for every number of values of a byte and    *)
(* for hosts of both kinds.                                                *)
(*                                                                         *)
(* A word is known by its digits (DigitsDecide), and every operation has   *)
(* digits that are some of the digits of its arguments; so each equation   *)
(* between words is one between digits.                                    *)
(***************************************************************************)
EXTENDS BitConverter, SequenceTheorems, TLAPS

Digits == 0..Radix-1

-----------------------------------------------------------------------------
(* Division, and the values of the places.                                 *)
LEMMA DivMod ==
  ASSUME NEW m \in Nat \ {0}, NEW q \in Nat, NEW a \in 0..m-1
  PROVE  (q * m + a) \div m = q /\ (q * m + a) % m = a
OBVIOUS

LEMMA Quotient ==
  ASSUME NEW m \in Nat \ {0}, NEW v \in Nat
  PROVE  \E q \in Nat, a \in 0..m-1 : v = q * m + a
<1>1. (v \div m) * m + (v % m) = v
  BY SMT
<1>2. v \div m \in Nat
  OBVIOUS
<1>3. v % m \in 0..m-1
  OBVIOUS
<1> QED
  BY <1>1, <1>2, <1>3, Zenon

LEMMA DivDiv ==
  ASSUME NEW m \in Nat \ {0}, NEW n \in Nat \ {0}, NEW v \in Nat
  PROVE  (v \div m) \div n = v \div (m * n)
<1>1. PICK q \in Nat, a \in 0..m-1 : v = q * m + a
  BY Quotient
<1>2. PICK p \in Nat, b \in 0..n-1 : q = p * n + b
  BY Quotient
<1>3. (v \div m) \div n = p
  BY <1>1, <1>2, DivMod
<1>4. v = p * (m * n) + (b * m + a)
  BY <1>1, <1>2
<1>5. m * n \in Nat \ {0} /\ b * m + a \in 0..(m * n)-1
  <2>1. b * m + a \in Nat
    OBVIOUS
  <2>2. (b + 1) * m <= n * m
    OBVIOUS
  <2>3. b * m + a < m * n
    BY <2>2
  <2> QED
    BY <2>1, <2>3
<1>6. v \div (m * n) = p
  BY <1>4, <1>5, DivMod
<1> QED
  BY <1>3, <1>6

LEMMA PlaceStep ==
  /\ Place[0] = 1
  /\ \A i \in 1..8 : Place[i] = Radix * Place[i - 1]
<1> DEFINE
      P1 == Radix * 1
      P2 == Radix * P1
      P3 == Radix * P2
      P4 == Radix * P3
      P5 == Radix * P4
      P6 == Radix * P5
      P7 == Radix * P6
      P8 == Radix * P7
      f == [i \in 0..8 |->
              CASE i = 0 -> 1 [] i = 1 -> P1 [] i = 2 -> P2
                [] i = 3 -> P3 [] i = 4 -> P4 [] i = 5 -> P5
                [] i = 6 -> P6 [] i = 7 -> P7 [] i = 8 -> P8]
<1>1. /\ f[0] = 1 /\ f[1] = Radix * f[0] /\ f[2] = Radix * f[1]
      /\ f[3] = Radix * f[2] /\ f[4] = Radix * f[3] /\ f[5] = Radix * f[4]
      /\ f[6] = Radix * f[5] /\ f[7] = Radix * f[6] /\ f[8] = Radix * f[7]
  OBVIOUS
<1>2. f = [i \in 0..8 |-> f[i]]
  OBVIOUS
<1> HIDE DEF f
<1>3. ASSUME NEW i \in 0..8
      PROVE  f[i] = IF i = 0 THEN 1 ELSE Radix * f[i - 1]
  <2> i \in {0, 1, 2, 3, 4, 5, 6, 7, 8}
    OBVIOUS
  <2> QED
    BY <1>1
<1>4. f = [i \in 0..8 |-> IF i = 0 THEN 1 ELSE Radix * f[i - 1]]
  BY <1>2, <1>3
<1>5. Place = [i \in 0..8 |-> IF i = 0 THEN 1 ELSE Radix * Place[i - 1]]
  BY <1>4, Zenon DEF Place
<1> QED
  BY <1>5

LEMMA PlaceType == \A i \in 0..8 : Place[i] \in Nat \ {0}
<1> USE RadixAssumption
<1>1. ASSUME NEW i \in 1..8, Place[i - 1] \in Nat \ {0} PROVE Place[i] \in Nat \ {0}
  BY PlaceStep, <1>1
<1>2. Place[0] \in Nat \ {0}
  BY PlaceStep
<1>3. Place[1] \in Nat \ {0} /\ Place[2] \in Nat \ {0}
  BY <1>1, <1>2
<1>4. Place[3] \in Nat \ {0} /\ Place[4] \in Nat \ {0}
  BY <1>1, <1>3
<1>5. Place[5] \in Nat \ {0} /\ Place[6] \in Nat \ {0}
  BY <1>1, <1>4
<1>6. Place[7] \in Nat \ {0} /\ Place[8] \in Nat \ {0}
  BY <1>1, <1>5
<1> QED
  BY <1>2, <1>3, <1>4, <1>5, <1>6

LEMMA PlaceSum ==
  \A i \in 0..8 : \A j \in 0..8-i : Place[i + j] = Place[i] * Place[j]
<1> USE RadixAssumption
<1> DEFINE P(i) == \A j \in 0..8-i : Place[i + j] = Place[i] * Place[j]
<1>1. P(0)
  BY PlaceStep, PlaceType
<1>2. ASSUME NEW i \in 0..7, P(i) PROVE P(i + 1)
  <2> SUFFICES ASSUME NEW j \in 0..8-(i+1)
               PROVE  Place[(i + 1) + j] = Place[i + 1] * Place[j]
    OBVIOUS
  <2>1. Place[(i + 1) + j] = Radix * Place[i + j]
    BY PlaceStep
  <2>2. Place[i + j] = Place[i] * Place[j]
    BY <1>2
  <2>3. Place[i + 1] = Radix * Place[i]
    BY PlaceStep
  <2>4. Place[i] \in Nat /\ Place[j] \in Nat
    BY PlaceType
  <2>5. Radix * (Place[i] * Place[j]) = (Radix * Place[i]) * Place[j]
    BY <2>4
  <2> QED
    BY <2>1, <2>2, <2>3, <2>5, Zenon
<1> HIDE DEF P
<1>3. P(1) /\ P(2) /\ P(3) /\ P(4)
  BY <1>1, <1>2
<1>4. P(5) /\ P(6) /\ P(7) /\ P(8)
  BY <1>2, <1>3
<1>5. \A i \in 0..8 : P(i)
  BY <1>1, <1>3, <1>4
<1> QED
  BY <1>5 DEF P


(* Place[i] splits at any place below it.                                  *)
LEMMA PlaceSplit ==
  ASSUME NEW w \in 0..8, NEW k \in 0..w
  PROVE  Place[w] = Place[k] * Place[w - k] /\ Place[w] = Place[w - k] * Place[k]
<1>1. k + (w - k) = w /\ w - k \in 0..8-k /\ k \in 0..8
  OBVIOUS
<1>2. Place[w] = Place[k] * Place[w - k]
  BY <1>1, PlaceSum
<1>3. Place[k] * Place[w - k] = Place[w - k] * Place[k]
  BY PlaceType
<1> QED
  BY <1>2, <1>3

LEMMA WordsType ==
  ASSUME NEW w \in 0..8, NEW v \in Words(w)
  PROVE  v \in Nat /\ v < Place[w]
BY PlaceType DEF Words

LEMMA PlaceOne == Place[1] = Radix /\ Words(1) = Digits /\ Words(0) = {0}
BY PlaceStep, RadixAssumption DEF Words, Digits

-----------------------------------------------------------------------------
(* The digits of a word, and of a word shifted.                            *)
LEMMA DigitType ==
  ASSUME NEW v \in Nat, NEW i \in 0..8
  PROVE  Digit(v, i) \in Digits
<1>1. v \div Place[i] \in Nat
  BY PlaceType
<1> QED
  BY <1>1, RadixAssumption DEF Digit, Digits

LEMMA DigitShiftRight ==
  ASSUME NEW v \in Nat, NEW k \in 0..8, NEW i \in 0..8-k
  PROVE  Digit(ShiftRight(v, k), i) = Digit(v, i + k)
<1>1. (v \div Place[k]) \div Place[i] = v \div (Place[k] * Place[i])
  <2>1. Place[k] \in Nat \ {0} /\ Place[i] \in Nat \ {0}
    BY PlaceType
  <2> QED
    BY <2>1, DivDiv, Zenon
<1>2. Place[k] * Place[i] = Place[i + k]
  BY PlaceSum
<1> QED
  BY <1>1, <1>2 DEF Digit, ShiftRight

LEMMA ShiftRightWord ==
  ASSUME NEW w \in 0..8, NEW k \in 0..w, NEW v \in Words(w)
  PROVE  ShiftRight(v, k) \in Words(w - k)
<1>1. v \in Nat /\ v < Place[w] /\ w - k \in 0..8
  BY WordsType
<1>0. Place[k] \in Nat \ {0}
  BY PlaceType
<1>2. PICK q \in Nat, a \in 0..Place[k]-1 : v = q * Place[k] + a
  BY <1>0, <1>1, Quotient, Zenon
<1>3. v \div Place[k] = q
  BY <1>0, <1>2, DivMod, Zenon
<1>4. Place[w] = Place[w - k] * Place[k]
  BY PlaceSplit
<1>5. Place[k] \in Nat \ {0} /\ Place[w - k] \in Nat \ {0}
  BY <1>1, PlaceType
<1>6. q * Place[k] < Place[w - k] * Place[k]
  BY <1>1, <1>2, <1>4, <1>5
<1>7. q < Place[w - k]
  BY <1>2, <1>5, <1>6
<1> QED
  BY <1>2, <1>3, <1>5, <1>7 DEF ShiftRight, Words

LEMMA TopDigit ==
  ASSUME NEW w \in 1..8, NEW v \in Words(w)
  PROVE  ShiftRight(v, w - 1) = Digit(v, w - 1)
<1>1. ShiftRight(v, w - 1) \in Digits
  <2>1. w - (w - 1) = 1 /\ w - 1 \in 0..w /\ w \in 0..8
    OBVIOUS
  <2> QED
    BY <2>1, ShiftRightWord, PlaceOne
<1>2. \A x \in Digits : x % Radix = x
  BY RadixAssumption DEF Digits
<1> QED
  BY <1>1, <1>2 DEF ShiftRight, Digit

(* A shift to the left cuts what leaves the word.                          *)
LEMMA ShiftLeftIs ==
  ASSUME NEW w \in 0..8, NEW k \in 0..w, NEW v \in Nat
  PROVE  /\ ShiftLeft(v, k, w) = (v % Place[w - k]) * Place[k]
         /\ ShiftLeft(v, k, w) \in Words(w)
<1> DEFINE P == Place[k]
           Q == Place[w - k]
<1>1. P \in Nat \ {0} /\ Q \in Nat \ {0}
  BY PlaceType
<1>2. Place[w] = Q * P
  BY PlaceSplit
<1> HIDE DEF P, Q
<1>3. PICK q \in Nat, a \in 0..Q-1 : v = q * Q + a
  BY <1>1, Quotient
<1>4. v * P = q * (Q * P) + a * P
  BY <1>1, <1>3
<1>5. a * P \in 0..(Q * P)-1 /\ Q * P \in Nat \ {0}
  <2>1. (a + 1) * P <= Q * P
    BY <1>1
  <2> QED
    BY <1>1, <2>1
<1>6. (v * P) % (Q * P) = a * P
  BY <1>4, <1>5, DivMod
<1>7. v % Q = a
  BY <1>1, <1>3, DivMod
<1> QED
  BY <1>2, <1>5, <1>6, <1>7 DEF ShiftLeft, P, Q, Words

(* What lies from place k on does not touch the digits below.              *)
LEMMA LowDigits ==
  ASSUME NEW k \in 0..8, NEW q \in Nat, NEW a \in Words(k)
  PROVE  /\ \A i \in 0..k-1 : Digit(q * Place[k] + a, i) = Digit(a, i)
         /\ Digit(q * Place[k] + a, k) = q % Radix
<1> USE RadixAssumption
<1> DEFINE v == q * Place[k] + a
<1>1. Place[k] \in Nat \ {0} /\ a \in 0..Place[k]-1
  BY PlaceType DEF Words
<1>2. Digit(v, k) = q % Radix
  BY <1>1, DivMod DEF Digit
<1>3. ASSUME NEW i \in 0..k-1 PROVE Digit(v, i) = Digit(a, i)
  <2> DEFINE P == Place[i]
             Q == Place[k - i - 1]
  <2>1. P \in Nat \ {0} /\ Q \in Nat \ {0}
    BY PlaceType
  <2>2. Place[k] = (Q * Radix) * P
    <3>1. Place[k] = Place[i] * Place[k - i]
      BY PlaceSplit
    <3>2. k - i \in 1..8 /\ Place[k - i] = Radix * Q
      BY PlaceStep
    <3> QED
      BY <2>1, <3>1, <3>2
  <2> HIDE DEF P, Q
  <2>3. PICK b \in Nat, r \in 0..P-1 : a = b * P + r
    <3>1. a \in Nat
      BY <1>1
    <3> QED
      BY <2>1, <3>1, Quotient, Zenon
  <2>4. v = ((q * Q) * Radix + b) * P + r
    <3>1. q * ((Q * Radix) * P) = ((q * Q) * Radix) * P
      BY <2>1
    <3>2. ((q * Q) * Radix) * P + b * P = ((q * Q) * Radix + b) * P
      BY <2>1
    <3>3. q * ((Q * Radix) * P) \in Nat /\ b * P \in Nat /\ r \in Nat
      BY <2>1
    <3> QED
      BY <2>2, <2>3, <3>1, <3>2, <3>3
  <2>5. (q * Q) * Radix + b \in Nat /\ q * Q \in Nat
    BY <2>1
  <2>6. v \div P = (q * Q) * Radix + b
    BY <2>1, <2>4, <2>5, DivMod, Zenon
  <2>7. a \div P = b
    BY <2>1, <2>3, DivMod, Zenon
  <2>8. ((q * Q) * Radix + b) % Radix = b % Radix
    <3>1. PICK c \in Nat, e \in 0..Radix-1 : b = c * Radix + e
      BY Quotient
    <3>2. (q * Q) * Radix + b = (q * Q + c) * Radix + e
      BY <2>5, <3>1
    <3>3. q * Q + c \in Nat /\ Radix \in Nat \ {0}
      BY <2>5
    <3>4. ((q * Q + c) * Radix + e) % Radix = e
      BY <3>3, DivMod, Zenon
    <3>5. b % Radix = e
      BY <3>1, <3>3, DivMod, Zenon
    <3> QED
      BY <3>2, <3>4, <3>5
  <2> QED
    BY <2>6, <2>7, <2>8 DEF Digit, P
<1> QED
  BY <1>2, <1>3

LEMMA DigitShiftLeft ==
  ASSUME NEW w \in 0..8, NEW k \in 0..w, NEW v \in Nat, NEW i \in k..w-1
  PROVE  Digit(ShiftLeft(v, k, w), i) = Digit(v, i - k)
<1> DEFINE P == Place[k]
           Q == Place[w - k]
           S == Place[i - k]
<1>1. P \in Nat \ {0} /\ Q \in Nat \ {0} /\ S \in Nat \ {0}
  BY PlaceType
<1>2. Place[i] = P * S
  BY PlaceSplit
<1> HIDE DEF P, Q, S
<1>3. PICK q \in Nat, a \in 0..Q-1 : v = q * Q + a
  BY <1>1, Quotient
<1>4. v % Q = a
  BY <1>1, <1>3, DivMod
<1>5. ShiftLeft(v, k, w) = a * P
  BY <1>4, ShiftLeftIs DEF P, Q
<1>6. (a * P) \div (P * S) = a \div S
  <2>1. a * P \in Nat /\ a * P = a * P + 0 /\ 0 \in 0..P-1
    BY <1>1
  <2>2. (a * P) \div P = a
    BY <1>1, <2>1, DivMod
  <2> QED
    BY <1>1, <2>1, <2>2, DivDiv
<1>7. Digit(ShiftLeft(v, k, w), i) = Digit(a, i - k)
  BY <1>2, <1>5, <1>6 DEF Digit, S
<1>8. Digit(v, i - k) = Digit(a, i - k)
  <2>1. w - k \in 0..8 /\ i - k \in 0..(w - k)-1 /\ a \in Words(w - k)
    BY DEF Words, Q
  <2> QED
    BY <1>3, <2>1, LowDigits DEF Q
<1> QED
  BY <1>7, <1>8

LEMMA AppendDigit ==
  ASSUME NEW k \in 0..7, NEW x \in Words(k), NEW d \in Digits
  PROVE  /\ d * Place[k] + x \in Words(k + 1)
         /\ \A i \in 0..k-1 : Digit(d * Place[k] + x, i) = Digit(x, i)
         /\ Digit(d * Place[k] + x, k) = d
<1> USE RadixAssumption
<1>1. d \in Nat /\ d < Radix /\ d % Radix = d /\ k \in 0..8
  BY DEF Digits
<1>2. Place[k] \in Nat \ {0} /\ x \in 0..Place[k]-1
  BY PlaceType DEF Words
<1>3. Place[k + 1] = Radix * Place[k]
  BY PlaceStep
<1>4. d * Place[k] + x \in 0..(Radix * Place[k])-1
  <2> DEFINE P == Place[k]
  <2> HIDE DEF P
  <2>1. P \in Nat \ {0} /\ x \in 0..P-1
    BY <1>2 DEF P
  <2>2. (d + 1) * P <= Radix * P
    BY <1>1, <2>1
  <2>3. d * P + x \in Nat /\ d * P + x < Radix * P
    BY <1>1, <2>1, <2>2
  <2> QED
    BY <2>1, <2>3 DEF P
<1>5. \A i \in 0..k-1 : Digit(d * Place[k] + x, i) = Digit(x, i)
  BY <1>1, LowDigits, Zenon
<1>6. Digit(d * Place[k] + x, k) = d
  BY <1>1, LowDigits, Zenon
<1> QED
  BY <1>3, <1>4, <1>5, <1>6 DEF Words

(***************************************************************************)
(* Two words of the same width are equal when their digits are.            *)
(***************************************************************************)
SameDigits(u, v, w) == \A i \in 0..w-1 : Digit(u, i) = Digit(v, i)

LEMMA DigitsDecide ==
  \A w \in 0..8 : \A u, v \in Words(w) : SameDigits(u, v, w) => u = v
<1> USE RadixAssumption
<1> DEFINE P(w) == \A u, v \in Words(w) : SameDigits(u, v, w) => u = v
<1>1. P(0)
  BY PlaceOne
<1>2. ASSUME NEW w \in 0..7, P(w) PROVE P(w + 1)
  <2> SUFFICES ASSUME NEW u \in Words(w + 1), NEW v \in Words(w + 1),
                      SameDigits(u, v, w + 1)
               PROVE  u = v
    OBVIOUS
  <2> DEFINE M == Place[w]
  <2>1. M \in Nat \ {0} /\ Place[w + 1] = Radix * M
    BY PlaceType, PlaceStep
  <2> HIDE DEF M
  <2>2. ASSUME NEW x \in Words(w + 1)
        PROVE  \E q \in Nat, a \in Words(w) :
                 /\ x = q * M + a
                 /\ q = Digit(x, w)
                 /\ \A i \in 0..w-1 : Digit(x, i) = Digit(a, i)
    <3>1. x \in Nat /\ x < Radix * M
      BY <2>1 DEF Words
    <3>2. PICK q \in Nat, a \in 0..M-1 : x = q * M + a
      BY <2>1, <3>1, Quotient
    <3>3. q * M < Radix * M
      BY <2>1, <3>1, <3>2
    <3>4. q < Radix
      BY <2>1, <3>2, <3>3
    <3>5. q % Radix = q
      BY <3>2, <3>4
    <3>6. a \in Words(w)
      BY DEF Words, M
    <3>7. /\ \A i \in 0..w-1 : Digit(x, i) = Digit(a, i)
          /\ Digit(x, w) = q % Radix
      <4>1. w \in 0..8
        OBVIOUS
      <4> QED
        BY <3>2, <3>6, <4>1, LowDigits, Zenon DEF M
    <3> QED
      BY <3>2, <3>5, <3>6, <3>7, Zenon
  <2>3. PICK q \in Nat, a \in Words(w) :
               /\ u = q * M + a
               /\ q = Digit(u, w)
               /\ \A i \in 0..w-1 : Digit(u, i) = Digit(a, i)
    BY <2>2
  <2>4. PICK p \in Nat, b \in Words(w) :
               /\ v = p * M + b
               /\ p = Digit(v, w)
               /\ \A i \in 0..w-1 : Digit(v, i) = Digit(b, i)
    BY <2>2
  <2>5. q = p /\ SameDigits(a, b, w)
    BY <2>3, <2>4 DEF SameDigits
  <2> QED
    BY <1>2, <2>3, <2>4, <2>5
<1> HIDE DEF P
<1>3. P(1) /\ P(2) /\ P(3) /\ P(4)
  BY <1>1, <1>2
<1>4. P(5) /\ P(6) /\ P(7) /\ P(8)
  BY <1>2, <1>3
<1>5. \A w \in 0..8 : P(w)
  BY <1>1, <1>3, <1>4
<1> QED
  BY <1>5 DEF P

-----------------------------------------------------------------------------
(* The conversions reverse the digits.                                     *)
Reversed(u, v, w) == u \in Words(w) /\ \A i \in 0..w-1 : Digit(u, i) = Digit(v, w - 1 - i)

LEMMA MaskedLow ==
  ASSUME NEW v \in Nat PROVE Masked(v, 0) = Digit(v, 0) /\ Digit(v, 0) = v % Radix
<1>1. v \div 1 = v
  OBVIOUS
<1>2. Digit(v, 0) = v % Radix /\ Digit(v, 0) \in Nat
  BY <1>1, PlaceStep, RadixAssumption DEF Digit
<1> QED
  BY <1>2, PlaceStep DEF Masked

(* The first byte shifted to the top of a word.                            *)
LEMMA ShiftToTop ==
  ASSUME NEW w \in 1..8, NEW v \in Nat
  PROVE  ShiftLeft(v, w - 1, w) = Digit(v, 0) * Place[w - 1]
<1>1. w - (w - 1) = 1 /\ w - 1 \in 0..w /\ w \in 0..8
  OBVIOUS
<1>2. ShiftLeft(v, w - 1, w) = (v % Place[1]) * Place[w - 1]
  BY <1>1, ShiftLeftIs
<1> QED
  BY <1>2, MaskedLow, PlaceOne

(* A word of one digit after another.                                      *)
LEMMA TwoDigits ==
  ASSUME NEW d0 \in Digits, NEW d1 \in Digits
  PROVE  LET x == d1 * Place[1] + d0
         IN  x \in Words(2) /\ Digit(x, 0) = d0 /\ Digit(x, 1) = d1
<1>1. d0 \in Words(1) /\ d0 \in Nat /\ d0 % Radix = d0
  BY PlaceOne, RadixAssumption DEF Digits
<1>2. Digit(d0, 0) = d0
  BY <1>1, MaskedLow
<1>3. /\ d1 * Place[1] + d0 \in Words(2)
      /\ Digit(d1 * Place[1] + d0, 0) = Digit(d0, 0)
      /\ Digit(d1 * Place[1] + d0, 1) = d1
  <2>1. /\ d1 * Place[1] + d0 \in Words(1 + 1)
        /\ \A i \in 0..1-1 : Digit(d1 * Place[1] + d0, i) = Digit(d0, i)
        /\ Digit(d1 * Place[1] + d0, 1) = d1
    <3>1. 1 \in 0..7
      OBVIOUS
    <3> QED
      BY <1>1, <3>1, AppendDigit, Zenon
  <2> QED
    BY <2>1
<1> QED
  BY <1>2, <1>3

LEMMA FourDigits ==
  ASSUME NEW d0 \in Digits, NEW d1 \in Digits, NEW d2 \in Digits, NEW d3 \in Digits
  PROVE  LET x == d3 * Place[3] + d2 * Place[2] + d1 * Place[1] + d0
         IN  /\ x \in Words(4)
             /\ Digit(x, 0) = d0 /\ Digit(x, 1) = d1
             /\ Digit(x, 2) = d2 /\ Digit(x, 3) = d3
<1> DEFINE x2 == d1 * Place[1] + d0
           x3 == d2 * Place[2] + x2
           x4 == d3 * Place[3] + x3
<1>1. x2 \in Words(2) /\ Digit(x2, 0) = d0 /\ Digit(x2, 1) = d1
  BY TwoDigits
<1> HIDE DEF x2
<1>2. /\ x3 \in Words(3) /\ \A i \in 0..1 : Digit(x3, i) = Digit(x2, i)
      /\ Digit(x3, 2) = d2
  BY <1>1, AppendDigit
<1> HIDE DEF x3
<1>3. /\ x4 \in Words(4) /\ \A i \in 0..2 : Digit(x4, i) = Digit(x3, i)
      /\ Digit(x4, 3) = d3
  BY <1>2, AppendDigit
<1> HIDE DEF x4
<1>4. x4 = d3 * Place[3] + d2 * Place[2] + d1 * Place[1] + d0
  <2>1. \A i \in {1, 2, 3} : Place[i] \in Nat
    BY PlaceType
  <2>2. d3 * Place[3] \in Nat /\ d2 * Place[2] \in Nat /\ d1 * Place[1] \in Nat /\ d0 \in Nat
    BY <2>1, RadixAssumption DEF Digits
  <2> QED
    BY <2>2 DEF x2, x3, x4
<1> QED
  BY <1>1, <1>2, <1>3, <1>4

LEMMA EightDigits ==
  ASSUME NEW d \in [0..7 -> Digits]
  PROVE  LET x == d[7] * Place[7] + d[6] * Place[6] + d[5] * Place[5] + d[4] * Place[4]
                    + d[3] * Place[3] + d[2] * Place[2] + d[1] * Place[1] + d[0]
         IN  x \in Words(8) /\ \A i \in 0..7 : Digit(x, i) = d[i]
<1>0. /\ d[0] \in Digits /\ d[1] \in Digits /\ d[2] \in Digits /\ d[3] \in Digits
      /\ d[4] \in Digits /\ d[5] \in Digits /\ d[6] \in Digits /\ d[7] \in Digits
  OBVIOUS
<1> DEFINE x4 == d[3] * Place[3] + d[2] * Place[2] + d[1] * Place[1] + d[0]
           x5 == d[4] * Place[4] + x4
           x6 == d[5] * Place[5] + x5
           x7 == d[6] * Place[6] + x6
           x8 == d[7] * Place[7] + x7
<1>1. /\ x4 \in Words(4)
      /\ Digit(x4, 0) = d[0] /\ Digit(x4, 1) = d[1]
      /\ Digit(x4, 2) = d[2] /\ Digit(x4, 3) = d[3]
  BY <1>0, FourDigits
<1> HIDE DEF x4
<1>2. /\ x5 \in Words(5) /\ \A i \in 0..3 : Digit(x5, i) = Digit(x4, i)
      /\ Digit(x5, 4) = d[4]
  BY <1>1, <1>0, AppendDigit
<1> HIDE DEF x5
<1>3. /\ x6 \in Words(6) /\ \A i \in 0..4 : Digit(x6, i) = Digit(x5, i)
      /\ Digit(x6, 5) = d[5]
  BY <1>2, <1>0, AppendDigit
<1> HIDE DEF x6
<1>4. /\ x7 \in Words(7) /\ \A i \in 0..5 : Digit(x7, i) = Digit(x6, i)
      /\ Digit(x7, 6) = d[6]
  BY <1>3, <1>0, AppendDigit
<1> HIDE DEF x7
<1>5. /\ x8 \in Words(8) /\ \A i \in 0..6 : Digit(x8, i) = Digit(x7, i)
      /\ Digit(x8, 7) = d[7]
  BY <1>4, <1>0, AppendDigit
<1> HIDE DEF x8
<1>6. x8 = d[7] * Place[7] + d[6] * Place[6] + d[5] * Place[5] + d[4] * Place[4]
             + d[3] * Place[3] + d[2] * Place[2] + d[1] * Place[1] + d[0]
  <2>1. \A i \in {1, 2, 3, 4, 5, 6, 7} : Place[i] \in Nat
    BY PlaceType
  <2>2. \A b \in Digits : \A i \in {1, 2, 3, 4, 5, 6, 7} : b \in Nat /\ b * Place[i] \in Nat
    BY <2>1, RadixAssumption DEF Digits
  <2>3. /\ d[7] * Place[7] \in Nat /\ d[6] * Place[6] \in Nat /\ d[5] * Place[5] \in Nat
        /\ d[4] * Place[4] \in Nat /\ d[3] * Place[3] \in Nat /\ d[2] * Place[2] \in Nat
        /\ d[1] * Place[1] \in Nat /\ d[0] \in Nat
    BY <1>0, <2>2, Zenon
  <2> QED
    BY <2>3 DEF x4, x5, x6, x7, x8
<1>7. ASSUME NEW i \in 0..7 PROVE Digit(x8, i) = d[i]
  <2> i \in {0, 1, 2, 3, 4, 5, 6, 7}
    OBVIOUS
  <2> QED
    BY <1>1, <1>2, <1>3, <1>4, <1>5
<1> QED
  BY <1>5, <1>6, <1>7

LEMMA Swapped16Reverses ==
  ASSUME NEW v \in Words(2) PROVE Reversed(Swapped16(v), v, 2)
<1>1. v \in Nat /\ Digit(v, 0) \in Digits /\ Digit(v, 1) \in Digits
  BY WordsType, DigitType
<1>2. Swapped16(v) = Digit(v, 0) * Place[1] + Digit(v, 1)
  <2>1. ShiftLeft(Masked(v, 0), 1, 2) = Digit(v, 0) * Place[1]
    <3>1. Digit(v, 0) \in Nat /\ Digit(Digit(v, 0), 0) = Digit(v, 0)
      BY <1>1, MaskedLow, RadixAssumption DEF Digits
    <3>2. ShiftLeft(Digit(v, 0), 2 - 1, 2) = Digit(Digit(v, 0), 0) * Place[2 - 1]
      BY <3>1, ShiftToTop
    <3> QED
      BY <1>1, <3>1, <3>2, MaskedLow
  <2>2. ShiftRight(Masked(v, 1), 1) = Digit(v, 1)
    <3>1. Place[1] \in Nat \ {0} /\ Digit(v, 1) \in Nat
      BY <1>1, PlaceType, RadixAssumption DEF Digits
    <3>2. Digit(v, 1) * Place[1] + 0 = Digit(v, 1) * Place[1] /\ 0 \in 0..Place[1]-1
      BY <3>1
    <3>3. (Digit(v, 1) * Place[1] + 0) \div Place[1] = Digit(v, 1)
      BY <3>1, <3>2, DivMod, Zenon
    <3> QED
      BY <3>2, <3>3 DEF ShiftRight, Masked
  <2> QED
    BY <2>1, <2>2 DEF Swapped16
<1> DEFINE x == Digit(v, 0) * Place[1] + Digit(v, 1)
<1>3. x \in Words(2) /\ Digit(x, 0) = Digit(v, 1) /\ Digit(x, 1) = Digit(v, 0)
  BY <1>1, TwoDigits
<1> HIDE DEF x
<1> QED
  BY <1>2, <1>3 DEF Reversed, x

(* A byte moved by a shift and then masked.                                *)
LEMMA MaskedLeft ==
  ASSUME NEW w \in 0..8, NEW k \in 0..w, NEW v \in Nat, NEW i \in k..w-1
  PROVE  Masked(ShiftLeft(v, k, w), i) = Digit(v, i - k) * Place[i]
BY DigitShiftLeft DEF Masked

LEMMA MaskedRight ==
  ASSUME NEW v \in Nat, NEW k \in 0..8, NEW i \in 0..8-k
  PROVE  Masked(ShiftRight(v, k), i) = Digit(v, i + k) * Place[i]
BY DigitShiftRight DEF Masked

LEMMA Swapped32Reverses ==
  ASSUME NEW v \in Words(4) PROVE Reversed(Swapped32(v), v, 4)
<1>1. /\ v \in Nat /\ Digit(v, 0) \in Digits /\ Digit(v, 1) \in Digits
      /\ Digit(v, 2) \in Digits /\ Digit(v, 3) \in Digits
  BY WordsType, DigitType
<1> DEFINE x == Digit(v, 0) * Place[3] + Digit(v, 1) * Place[2]
                  + Digit(v, 2) * Place[1] + Digit(v, 3)
<1>2. Swapped32(v) = x
  <2>1. ShiftLeft(v, 3, 4) = Digit(v, 0) * Place[3]
    <3>1. ShiftLeft(v, 4 - 1, 4) = Digit(v, 0) * Place[4 - 1]
      BY <1>1, ShiftToTop
    <3> QED
      BY <3>1
  <2>2. Masked(ShiftLeft(v, 1, 4), 2) = Digit(v, 1) * Place[2]
    <3>1. Masked(ShiftLeft(v, 1, 4), 2) = Digit(v, 2 - 1) * Place[2]
      BY <1>1, MaskedLeft
    <3> QED
      BY <3>1
  <2>3. Masked(ShiftRight(v, 1), 1) = Digit(v, 2) * Place[1]
    <3>1. Masked(ShiftRight(v, 1), 1) = Digit(v, 1 + 1) * Place[1]
      BY <1>1, MaskedRight
    <3> QED
      BY <3>1
  <2>4. ShiftRight(v, 3) = Digit(v, 3)
    <3>1. ShiftRight(v, 4 - 1) = Digit(v, 4 - 1)
      BY TopDigit
    <3> QED
      BY <3>1
  <2> QED
    BY <2>1, <2>2, <2>3, <2>4 DEF Swapped32
<1>3. /\ x \in Words(4)
      /\ Digit(x, 0) = Digit(v, 3) /\ Digit(x, 1) = Digit(v, 2)
      /\ Digit(x, 2) = Digit(v, 1) /\ Digit(x, 3) = Digit(v, 0)
  BY <1>1, FourDigits
<1> HIDE DEF x
<1> QED
  BY <1>2, <1>3 DEF Reversed

LEMMA Swapped64Reverses ==
  ASSUME NEW v \in Words(8) PROVE Reversed(Swapped64(v), v, 8)
<1>1. /\ v \in Nat
      /\ Digit(v, 0) \in Digits /\ Digit(v, 1) \in Digits
      /\ Digit(v, 2) \in Digits /\ Digit(v, 3) \in Digits
      /\ Digit(v, 4) \in Digits /\ Digit(v, 5) \in Digits
      /\ Digit(v, 6) \in Digits /\ Digit(v, 7) \in Digits
  BY WordsType, DigitType
<1> DEFINE x == Digit(v, 0) * Place[7] + Digit(v, 1) * Place[6]
                  + Digit(v, 2) * Place[5] + Digit(v, 3) * Place[4]
                  + Digit(v, 4) * Place[3] + Digit(v, 5) * Place[2]
                  + Digit(v, 6) * Place[1] + Digit(v, 7)
<1>2. Swapped64(v) = x
  <2>1. ShiftLeft(v, 7, 8) = Digit(v, 0) * Place[7]
    <3>1. ShiftLeft(v, 8 - 1, 8) = Digit(v, 0) * Place[8 - 1]
      BY <1>1, ShiftToTop
    <3> QED
      BY <3>1
  <2>2. Masked(ShiftLeft(v, 5, 8), 6) = Digit(v, 1) * Place[6]
    <3>1. Masked(ShiftLeft(v, 5, 8), 6) = Digit(v, 6 - 5) * Place[6]
      BY <1>1, MaskedLeft
    <3> QED
      BY <3>1
  <2>3. Masked(ShiftLeft(v, 3, 8), 5) = Digit(v, 2) * Place[5]
    <3>1. Masked(ShiftLeft(v, 3, 8), 5) = Digit(v, 5 - 3) * Place[5]
      BY <1>1, MaskedLeft
    <3> QED
      BY <3>1
  <2>4. Masked(ShiftLeft(v, 1, 8), 4) = Digit(v, 3) * Place[4]
    <3>1. Masked(ShiftLeft(v, 1, 8), 4) = Digit(v, 4 - 1) * Place[4]
      BY <1>1, MaskedLeft
    <3> QED
      BY <3>1
  <2>5. Masked(ShiftRight(v, 1), 3) = Digit(v, 4) * Place[3]
    <3>1. Masked(ShiftRight(v, 1), 3) = Digit(v, 3 + 1) * Place[3]
      BY <1>1, MaskedRight
    <3> QED
      BY <3>1
  <2>6. Masked(ShiftRight(v, 3), 2) = Digit(v, 5) * Place[2]
    <3>1. Masked(ShiftRight(v, 3), 2) = Digit(v, 2 + 3) * Place[2]
      BY <1>1, MaskedRight
    <3> QED
      BY <3>1
  <2>7. Masked(ShiftRight(v, 5), 1) = Digit(v, 6) * Place[1]
    <3>1. Masked(ShiftRight(v, 5), 1) = Digit(v, 1 + 5) * Place[1]
      BY <1>1, MaskedRight
    <3> QED
      BY <3>1
  <2>8. ShiftRight(v, 7) = Digit(v, 7)
    <3>1. ShiftRight(v, 8 - 1) = Digit(v, 8 - 1)
      BY TopDigit
    <3> QED
      BY <3>1
  <2> QED
    BY <2>1, <2>2, <2>3, <2>4, <2>5, <2>6, <2>7, <2>8 DEF Swapped64
<1> DEFINE d == [i \in 0..7 |-> Digit(v, 7 - i)]
<1>3. /\ d[0] = Digit(v, 7) /\ d[1] = Digit(v, 6) /\ d[2] = Digit(v, 5)
      /\ d[3] = Digit(v, 4) /\ d[4] = Digit(v, 3) /\ d[5] = Digit(v, 2)
      /\ d[6] = Digit(v, 1) /\ d[7] = Digit(v, 0)
  OBVIOUS
<1>4. d \in [0..7 -> Digits]
  <2> SUFFICES ASSUME NEW i \in 0..7 PROVE Digit(v, 7 - i) \in Digits
    OBVIOUS
  <2> 7 - i \in 0..8
    OBVIOUS
  <2> QED
    BY <1>1, DigitType
<1>5. \A i \in 0..7 : d[i] = Digit(v, 7 - i)
  OBVIOUS
<1> HIDE DEF d
<1>6. x = d[7] * Place[7] + d[6] * Place[6] + d[5] * Place[5] + d[4] * Place[4]
            + d[3] * Place[3] + d[2] * Place[2] + d[1] * Place[1] + d[0]
  BY <1>3
<1> HIDE DEF x
<1>7. x \in Words(8) /\ \A i \in 0..7 : Digit(x, i) = d[i]
  BY <1>4, <1>6, EightDigits
<1> QED
  BY <1>2, <1>5, <1>7 DEF Reversed

(***************************************************************************)
(* toNetwork keeps the width and, on a little-endian host, reverses the    *)
(* bytes.                                                                  *)
(***************************************************************************)
LEMMA ToNetworkReverses ==
  ASSUME NEW w \in Widths, NEW v \in Words(w)
  PROVE  /\ ToNetwork(v, w) \in Words(w)
         /\ HostBigEndian => ToNetwork(v, w) = v
         /\ ~HostBigEndian => Reversed(ToNetwork(v, w), v, w)
<1>1. CASE HostBigEndian
  BY <1>1 DEF ToNetwork
<1>2. CASE ~HostBigEndian
  <2>1. Reversed(ToNetwork(v, w), v, w)
    <3>1. CASE w = 2
      BY <1>2, <3>1, Swapped16Reverses DEF ToNetwork
    <3>2. CASE w = 4
      BY <1>2, <3>2, Swapped32Reverses DEF ToNetwork
    <3>3. CASE w = 8
      BY <1>2, <3>3, Swapped64Reverses DEF ToNetwork
    <3> QED
      BY <3>1, <3>2, <3>3 DEF Widths
  <2> QED
    BY <1>2, <2>1 DEF Reversed
<1> QED
  BY <1>1, <1>2

LEMMA ReversedTwice ==
  ASSUME NEW w \in Widths, NEW v \in Words(w), NEW u, NEW x,
         Reversed(u, v, w), Reversed(x, u, w)
  PROVE  x = v
<1>1. w \in 0..8
  BY DEF Widths
<1>2. SameDigits(x, v, w)
  <2> SUFFICES ASSUME NEW i \in 0..w-1 PROVE Digit(x, i) = Digit(v, i)
    BY DEF SameDigits
  <2>1. w - 1 - i \in 0..w-1 /\ w - 1 - (w - 1 - i) = i
    BY <1>1
  <2>2. Digit(x, i) = Digit(u, w - 1 - i)
    BY DEF Reversed
  <2>3. Digit(u, w - 1 - i) = Digit(v, w - 1 - (w - 1 - i))
    BY <2>1, Zenon DEF Reversed
  <2> QED
    BY <2>1, <2>2, <2>3
<1> QED
  BY <1>1, <1>2, DigitsDecide DEF Reversed

LEMMA HostOfNetwork ==
  ASSUME NEW w \in Widths, NEW v \in Words(w)
  PROVE  ToHost(ToNetwork(v, w), w) = v
<1>1. CASE HostBigEndian
  BY <1>1, ToNetworkReverses DEF ToHost
<1>2. CASE ~HostBigEndian
  BY <1>2, ToNetworkReverses, ReversedTwice DEF ToHost
<1> QED
  BY <1>1, <1>2

-----------------------------------------------------------------------------
(* The bytes of a word, and what the reader makes of them.                 *)
LEMMA SeqOfDigits ==
  ASSUME NEW w \in Nat, NEW s \in [1..w -> Digits]
  PROVE  s \in Seq(Digits) /\ Len(s) = w
OBVIOUS

LEMMA ReverseDigits ==
  ASSUME NEW w \in Nat, NEW s \in [1..w -> Digits]
  PROVE  /\ Reverse(s) \in [1..w -> Digits]
         /\ \A i \in 1..w : Reverse(s)[i] = s[w - i + 1]
BY SeqOfDigits DEF Reverse

LEMMA ToBytesType ==
  ASSUME NEW w \in Widths, NEW v \in Words(w)
  PROVE  ToBytes(v, w) \in [1..w -> Digits]
<1>1. w \in 0..8
  BY DEF Widths
<1>2. ASSUME NEW i \in 1..w PROVE Digit(v, w - i) \in Digits
  <2>1. w - i \in 0..8 /\ v \in Nat
    BY <1>1, WordsType
  <2> QED
    BY <2>1, DigitType
<1> QED
  BY <1>2 DEF ToBytes

(* getInt16 and getInt32 put each byte in its place.                       *)
LEMMA FromBytesIs ==
  ASSUME NEW w \in RingWidths, NEW s \in [1..w -> Digits]
  PROVE  /\ FromBytes(s) \in Words(w)
         /\ \A i \in 0..w-1 : Digit(FromBytes(s), i) = s[w - i]
<1>1. CASE w = 2
  <2>1. s[1] \in Digits /\ s[2] \in Digits
    BY <1>1
  <2> DEFINE x == s[1] * Place[1] + s[2]
  <2>2. FromBytes(s) = x
    BY <1>1, SeqOfDigits DEF FromBytes
  <2>3. x \in Words(2) /\ Digit(x, 0) = s[2] /\ Digit(x, 1) = s[1]
    BY <2>1, TwoDigits
  <2> HIDE DEF x
  <2> QED
    BY <1>1, <2>2, <2>3
<1>2. CASE w = 4
  <2>1. s[1] \in Digits /\ s[2] \in Digits /\ s[3] \in Digits /\ s[4] \in Digits
    BY <1>2
  <2> DEFINE x == s[1] * Place[3] + s[2] * Place[2] + s[3] * Place[1] + s[4]
  <2>2. FromBytes(s) = x
    BY <1>2, SeqOfDigits DEF FromBytes
  <2>3. /\ x \in Words(4) /\ Digit(x, 0) = s[4] /\ Digit(x, 1) = s[3]
        /\ Digit(x, 2) = s[2] /\ Digit(x, 3) = s[1]
    BY <2>1, FourDigits
  <2> HIDE DEF x
  <2> QED
    BY <1>2, <2>2, <2>3
<1> QED
  BY <1>1, <1>2 DEF RingWidths

LEMMA BytesOfWord ==
  ASSUME NEW w \in RingWidths, NEW v \in Words(w)
  PROVE  FromBytes(ToBytes(v, w)) = v
<1>1. w \in Widths /\ w \in 0..8
  BY DEF RingWidths, Widths
<1> DEFINE s == ToBytes(v, w)
<1>2. s \in [1..w -> Digits] /\ \A i \in 0..w-1 : s[w - i] = Digit(v, i)
  <2>1. s \in [1..w -> Digits]
    BY <1>1, ToBytesType
  <2>2. ASSUME NEW i \in 0..w-1 PROVE s[w - i] = Digit(v, i)
    <3>1. w - i \in 1..w /\ w - (w - i) = i
      BY <1>1
    <3>2. s[w - i] = Digit(v, w - (w - i))
      BY <3>1 DEF ToBytes
    <3> QED
      BY <3>1, <3>2
  <2> QED
    BY <2>1, <2>2
<1> HIDE DEF s
<1>3. FromBytes(s) \in Words(w) /\ SameDigits(FromBytes(s), v, w)
  BY <1>2, FromBytesIs DEF SameDigits
<1> QED
  BY <1>1, <1>3, DigitsDecide DEF s

(* The same bytes taken in the other order make the converted integer.     *)
LEMMA ReversedBytesOfWord ==
  ASSUME NEW w \in RingWidths, NEW v \in Words(w)
  PROVE  Reversed(FromBytes(Reverse(ToBytes(v, w))), v, w)
<1>1. w \in Widths /\ w \in 0..8
  BY DEF RingWidths, Widths
<1> DEFINE s == Reverse(ToBytes(v, w))
<1>2. s \in [1..w -> Digits] /\ \A i \in 0..w-1 : s[w - i] = Digit(v, w - 1 - i)
  <2>1. /\ s \in [1..w -> Digits]
        /\ \A i \in 1..w : s[i] = ToBytes(v, w)[w - i + 1]
    BY <1>1, ToBytesType, ReverseDigits
  <2>2. ASSUME NEW i \in 0..w-1 PROVE s[w - i] = Digit(v, w - 1 - i)
    <3>1. w - i \in 1..w /\ w - (w - i) + 1 = i + 1 /\ i + 1 \in 1..w /\ w - (i + 1) = w - 1 - i
      BY <1>1
    <3>2. s[w - i] = ToBytes(v, w)[i + 1]
      BY <2>1, <3>1
    <3>3. ToBytes(v, w)[i + 1] = Digit(v, w - (i + 1))
      BY <3>1 DEF ToBytes
    <3> QED
      BY <3>1, <3>2, <3>3
  <2> QED
    BY <2>1, <2>2
<1> HIDE DEF s
<1>3. FromBytes(s) \in Words(w) /\ \A i \in 0..w-1 : Digit(FromBytes(s), i) = Digit(v, w - 1 - i)
  BY <1>2, FromBytesIs
<1> QED
  BY <1>3 DEF Reversed, s

-----------------------------------------------------------------------------
(* A field in a sequence of bytes.                                         *)
At(s, k, f) == k + Len(f) <= Len(s) /\ \A i \in 1..Len(f) : s[k + i] = f[i]

LEMMA AtConcat ==
  ASSUME NEW S, NEW a \in Seq(S), NEW f \in Seq(S)
  PROVE  /\ a \o f \in Seq(S)
         /\ Len(a \o f) = Len(a) + Len(f)
         /\ At(a \o f, Len(a), f)
         /\ \A g \in Seq(S), k \in Nat : At(a, k, g) => At(a \o f, k, g)
<1>1. a \o f \in Seq(S) /\ Len(a \o f) = Len(a) + Len(f)
  OBVIOUS
<1>2. At(a \o f, Len(a), f)
  BY DEF At
<1>3. ASSUME NEW g \in Seq(S), NEW k \in Nat, At(a, k, g) PROVE At(a \o f, k, g)
  BY <1>3 DEF At
<1> QED
  BY <1>1, <1>2, <1>3

LEMMA AtSubSeq ==
  ASSUME NEW S, NEW s \in Seq(S), NEW f \in Seq(S), NEW k \in Nat, At(s, k, f)
  PROVE  SubSeq(s, k + 1, k + Len(f)) = f
<1> DEFINE t == SubSeq(s, k + 1, k + Len(f))
<1>1. t \in Seq(S) /\ Len(t) = Len(f) /\ \A i \in 1..Len(f) : t[i] = s[k + i]
  BY SubSeqProperties DEF At
<1> HIDE DEF t
<1>2. \A i \in 1..Len(f) : t[i] = f[i]
  BY <1>1 DEF At
<1>3. t = f
  BY <1>1, <1>2, SeqEqual
<1> QED
  BY <1>3 DEF t

=============================================================================
