---------------------------- MODULE FrameProofs ----------------------------
(***************************************************************************)
(* Proofs about the frames of L2.                                          *)
(*                                                                         *)
(* The checksum, for frames of every length and content: it is the         *)
(* remainder of the polynomial division.  As long as the LEN byte is       *)
(* intact, by which l2FrameCheck finds it, the check is linear, and a      *)
(* frame with an odd number of flipped bits is refused; so is one with     *)
(* two, because the powers of x repeat modulo the polynomial only after    *)
(* 2^15 - 1 places.  A burst within 16 places is refused unless it lies    *)
(* across the boundary of data and checksum, whose bytes are swapped.      *)
(*                                                                         *)
(* The exchange of frames, for every set of requests and every number of   *)
(* attempts: what l2SendRecv returns is the answer to its own request, and *)
(* a request is carried out again only after a status that misled it.  The *)
(* invariant says which frames can still be in the chip's registers.  A    *)
(* call of l2SendRecv or l2Receive makes a bounded number of steps.        *)
(***************************************************************************)
EXTENDS L2System, Crc16, FiniteSetTheorems, SequenceTheorems, Induction, TLAPS

\* The bits of a round.
LEMMA RoundIs ==
  ASSUME NEW r \in Word
  PROVE  /\ Round(r) \in Word
         /\ \A x : x \in Round(r) <=> ~((x \in 1..15 /\ x - 1 \in r) <=> (15 \in r /\ x \in Poly))
<1>1. ASSUME NEW x
      PROVE  x \in ShiftLeft(r) <=> (x \in 1..15 /\ x - 1 \in r)
  BY DEF Word, ShiftLeft
<1>2. Round(r) \in Word
  BY <1>1 DEF Word, Round, Xor, Poly
<1>3. ASSUME NEW x
      PROVE  x \in Round(r) <=> ~((x \in 1..15 /\ x - 1 \in r) <=> (15 \in r /\ x \in Poly))
  BY <1>1 DEF Round, Xor
<1> QED
  BY <1>2, <1>3

\* One round is linear: the bit that falls out decides on the polynomial at both
\* sides.
LEMMA RoundLinear ==
  ASSUME NEW a \in Word, NEW b \in Word
  PROVE  /\ Round(a) \in Word
         /\ Round(Xor(a, b)) = Xor(Round(a), Round(b))
<1> DEFINE In(x, r) == x \in 1..15 /\ x - 1 \in r
<1>1. ASSUME NEW r \in Word, NEW x
      PROVE  x \in Round(r) <=> ~(In(x, r) <=> (15 \in r /\ x \in Poly))
  BY RoundIs
<1>2. Round(a) \in Word
  BY RoundIs
<1>3. Xor(a, b) \in Word
  BY DEF Word, Xor
<1>5. ASSUME NEW x
      PROVE  In(x, Xor(a, b)) <=> ~(In(x, a) <=> In(x, b))
  BY DEF Xor
<1>6. 15 \in Xor(a, b) <=> ~(15 \in a <=> 15 \in b)
  BY DEF Xor
<1>7. ASSUME NEW x
      PROVE  x \in Round(Xor(a, b)) <=> x \in Xor(Round(a), Round(b))
  <2>1. x \in Round(Xor(a, b)) <=> ~(In(x, Xor(a, b)) <=> (15 \in Xor(a, b) /\ x \in Poly))
    BY <1>1, <1>3
  <2>2. x \in Xor(Round(a), Round(b)) <=> ~(x \in Round(a) <=> x \in Round(b))
    BY DEF Xor
  <2>3. /\ x \in Round(a) <=> ~(In(x, a) <=> (15 \in a /\ x \in Poly))
        /\ x \in Round(b) <=> ~(In(x, b) <=> (15 \in b /\ x \in Poly))
    BY <1>1
  <2> HIDE DEF In
  <2> QED
    BY <2>1, <2>2, <2>3, <1>5, <1>6
<1> QED
  BY <1>2, <1>7

LEMMA XorWord ==
  ASSUME NEW a \in Word, NEW b \in Word
  PROVE  Xor(a, b) \in Word
BY DEF Word, Xor

LEMMA RoundsLinear ==
  ASSUME NEW a \in Word, NEW b \in Word
  PROVE  /\ Rounds8(a) \in Word
         /\ Rounds8(Xor(a, b)) = Xor(Rounds8(a), Rounds8(b))
<1>1. ASSUME NEW r \in Word, NEW s \in Word
      PROVE  Rounds2(r) \in Word /\ Rounds2(Xor(r, s)) = Xor(Rounds2(r), Rounds2(s))
  BY RoundLinear DEF Rounds2
<1>2. ASSUME NEW r \in Word, NEW s \in Word
      PROVE  Rounds4(r) \in Word /\ Rounds4(Xor(r, s)) = Xor(Rounds4(r), Rounds4(s))
  BY <1>1 DEF Rounds4
<1> QED
  BY <1>2 DEF Rounds8

LEMMA HighWord ==
  ASSUME NEW f \in Byte
  PROVE  High(f) \in SUBSET (8..15)
BY DEF High, Byte

\* The outer loop is linear in the register and the byte.
LEMMA AbsorbLinear ==
  ASSUME NEW a \in Word, NEW b \in Word, NEW m \in Byte, NEW f \in Byte
  PROVE  /\ Absorb(a, m) \in Word
         /\ Absorb(Xor(a, b), Xor(m, f)) = Xor(Absorb(a, m), Absorb(b, f))
<1>1. High(m) \in Word /\ High(f) \in Word
  BY HighWord DEF Word
<1>2. High(Xor(m, f)) = Xor(High(m), High(f))
  BY DEF High, Xor, Byte
<1>3. Xor(Xor(a, b), Xor(High(m), High(f))) = Xor(Xor(a, High(m)), Xor(b, High(f)))
  BY DEF Xor
<1>4. Xor(a, High(m)) \in Word /\ Xor(b, High(f)) \in Word
  BY <1>1, XorWord
<1> QED
  BY <1>2, <1>3, <1>4, RoundsLinear DEF Absorb

-----------------------------------------------------------------------------
\* The number of ones.

LEMMA WordFinite ==
  ASSUME NEW r \in Word
  PROVE  IsFiniteSet(r) /\ Cardinality(r) \in Nat
<1>1. r \in SUBSET Nat /\ \A i \in r : i <= 15
  BY DEF Word
<1>2. 15 \in Nat
  OBVIOUS
<1>3. IsFiniteSet(r)
  BY <1>1, <1>2, FS_BoundedSetOfNaturals, Zenon
<1> QED
  BY <1>3, FS_CardinalityType

\* The ones of an exclusive or: each common one is lost twice.
LEMMA XorParity ==
  ASSUME NEW a \in Word, NEW b \in Word
  PROVE  Cardinality(Xor(a, b)) % 2 = (Cardinality(a) + Cardinality(b)) % 2
<1> DEFINE n == Cardinality(a \intersect b)
<1>1. IsFiniteSet(a) /\ IsFiniteSet(b) /\ Cardinality(a) \in Nat /\ Cardinality(b) \in Nat
  BY WordFinite
<1>2. n \in Nat
  BY <1>1, FS_Intersection, FS_CardinalityType
<1>3. IsFiniteSet(a \ b) /\ Cardinality(a \ b) = Cardinality(a) - n
  BY <1>1, FS_Difference
<1>4. b \intersect a = a \intersect b
  OBVIOUS
<1>5. IsFiniteSet(b \ a) /\ Cardinality(b \ a) = Cardinality(b) - n
  BY <1>1, <1>4, FS_Difference, ZenonT(30)
<1>6. (a \ b) \intersect (b \ a) = {}
  OBVIOUS
<1>7. Cardinality(Xor(a, b)) = Cardinality(a \ b) + Cardinality(b \ a)
                               - Cardinality((a \ b) \intersect (b \ a))
  BY <1>3, <1>5, FS_Union, Zenon DEF Xor
<1>8. Cardinality((a \ b) \intersect (b \ a)) = 0
  BY <1>6, FS_EmptySet
<1> HIDE DEF n
<1>9. Cardinality(Xor(a, b)) = Cardinality(a) + Cardinality(b) - 2 * n
  BY <1>1, <1>2, <1>3, <1>5, <1>7, <1>8
<1> QED
  BY <1>1, <1>2, <1>9

\* The same set of bits, counted from another place.
LEMMA Moved ==
  ASSUME NEW r \in Word, NEW T, NEW f \in Bijection(r, T)
  PROVE  Cardinality(T) = Cardinality(r)
<1>1. ExistsBijection(r, T)
  BY DEF ExistsBijection
<1> QED
  BY <1>1, WordFinite, FS_Bijection

LEMMA ShiftCount ==
  ASSUME NEW r \in Word
  PROVE  Cardinality(ShiftLeft(r)) = Cardinality(r \ {15})
<1> DEFINE s == r \ {15}
           f == [b \in s |-> b + 1]
<1>1. s \in Word /\ s \subseteq 0..15
  BY DEF Word
<1>2. f \in Bijection(s, ShiftLeft(r))
  BY <1>1 DEF Bijection, Injection, Surjection, IsInjective, ShiftLeft
<1> QED
  BY <1>1, <1>2, Moved

LEMMA PolyOdd == Poly \in Word /\ Cardinality(Poly) = 3
<1>1. IsFiniteSet({0}) /\ Cardinality({0}) = 1
  BY FS_Singleton
<1>2. IsFiniteSet({0} \union {2}) /\ Cardinality({0} \union {2}) = 2
  BY <1>1, FS_AddElement
<1>3. Cardinality(({0} \union {2}) \union {15}) = 3
  BY <1>2, FS_AddElement
<1>4. Poly = ({0} \union {2}) \union {15}
  BY DEF Poly
<1> QED
  BY <1>3, <1>4 DEF Word

\* A round keeps the parity: with the bit that falls out it adds three others.
LEMMA RoundParity ==
  ASSUME NEW r \in Word
  PROVE  Cardinality(Round(r)) % 2 = Cardinality(r) % 2
<1>1. Cardinality(r) \in Nat /\ IsFiniteSet(r)
  BY WordFinite
<1>2. ShiftLeft(r) \in Word
  BY DEF Word, ShiftLeft
<1>3. CASE 15 \notin r
  <2>1. r \ {15} = r
    BY <1>3
  <2> QED
    BY <1>3, <2>1, ShiftCount DEF Round
<1>4. CASE 15 \in r
  <2>1. Cardinality(ShiftLeft(r)) = Cardinality(r) - 1
    BY <1>1, <1>4, ShiftCount, FS_RemoveElement
  <2>2. Cardinality(Round(r)) % 2 = (Cardinality(r) - 1 + 3) % 2
    BY <1>2, <1>4, <2>1, XorParity, PolyOdd DEF Round
  <2> QED
    BY <1>1, <2>2
<1> QED
  BY <1>3, <1>4

LEMMA RoundsParity ==
  ASSUME NEW r \in Word
  PROVE  Cardinality(Rounds8(r)) % 2 = Cardinality(r) % 2
<1>1. ASSUME NEW s \in Word
      PROVE  Rounds2(s) \in Word /\ Cardinality(Rounds2(s)) % 2 = Cardinality(s) % 2
  BY RoundLinear, RoundParity DEF Rounds2
<1>2. ASSUME NEW s \in Word
      PROVE  Rounds4(s) \in Word /\ Cardinality(Rounds4(s)) % 2 = Cardinality(s) % 2
  BY <1>1 DEF Rounds4
<1> QED
  BY <1>2 DEF Rounds8

LEMMA HighCount ==
  ASSUME NEW f \in Byte
  PROVE  Cardinality(High(f)) = Cardinality(f)
<1> DEFINE g == [b \in f |-> b + 8]
<1>1. f \in Word /\ f \subseteq 0..7
  BY DEF Word, Byte
<1>2. g \in Bijection(f, High(f))
  BY <1>1 DEF Bijection, Injection, Surjection, IsInjective, High
<1> QED
  BY <1>1, <1>2, Moved

LEMMA SwapCount ==
  ASSUME NEW r \in Word
  PROVE  Swap(r) \in Word /\ Cardinality(Swap(r)) = Cardinality(r)
<1> DEFINE g == [b \in r |-> (b + 8) % 16]
<1>1. r \subseteq 0..15
  BY DEF Word
<1>2. \A b \in r : (b + 8) % 16 = IF b < 8 THEN b + 8 ELSE b - 8
  BY <1>1
<1>3. g \in Bijection(r, Swap(r))
  BY <1>1, <1>2 DEF Bijection, Injection, Surjection, IsInjective, Swap
<1> QED
  BY <1>1, <1>2, <1>3, Moved DEF Word, Swap

-----------------------------------------------------------------------------
\* The two ends of the line.

LEMMA ByteWord ==
  ASSUME NEW f \in Byte
  PROVE  f \in Word /\ High(f) \in Word /\ Cardinality(f) \in Nat
BY HighWord, WordFinite DEF Word, Byte

LEMMA DataBytes ==
  ASSUME NEW b \in Data
  PROVE  b \in Byte
BY Crc16Assumption DEF Byte

LEMMA XorByte ==
  ASSUME NEW a \in Byte, NEW b \in Byte
  PROVE  Xor(a, b) \in Byte
BY DEF Byte, Xor

\* The two bytes of a word.
LEMMA BytesOfWord ==
  ASSUME NEW r \in Word
  PROVE  HighByte(r) \in Byte /\ LowByte(r) \in Byte
<1>1. \A i \in r \ (0..7) : i - 8 \in 0..7
  BY DEF Word
<1> QED
  BY <1>1 DEF HighByte, LowByte, Byte

\* LEN is at most 255.
LEMMA ValueIs ==
  ASSUME NEW b
  PROVE  Value(b) \in 0..255 /\ Value(b) \in Nat
BY DEF Value

\* What a byte adds to the buffer.
LEMMA Arriving ==
  ASSUME LineTypeOK, NEW b \in Byte, Arrives(b)
  PROVE  /\ arrived' \in Seq(Byte) /\ Len(arrived) \in Nat /\ Len(arrived') = Len(arrived) + 1
         /\ rx' \in Seq(Word) /\ Len(rx') = Len(arrived') + 1
         /\ arrived'[Len(arrived) + 1] = b
         /\ \A k \in 1..Len(arrived) : arrived'[k] = arrived[k]
         /\ \A k \in 1..(Len(arrived) + 1) : rx'[k] = rx[k]
         /\ rx'[Len(arrived) + 2] = Absorb(rx[Len(arrived) + 1], b)
<1>1. arrived \in Seq(Byte) /\ rx \in Seq(Word) /\ Len(rx) = Len(arrived) + 1 /\ Len(arrived) \in Nat
  BY LenProperties DEF LineTypeOK
<1>2. arrived' = Append(arrived, b) /\ rx' = Append(rx, Absorb(rx[Len(rx)], b))
  BY DEF Arrives
<1>3. rx[Len(rx)] \in Word
  BY <1>1, ElementOfSeq
<1>4. Absorb(rx[Len(rx)], b) \in Word
  BY <1>3, AbsorbLinear
<1>5. /\ arrived' \in Seq(Byte) /\ Len(arrived') = Len(arrived) + 1
      /\ arrived'[Len(arrived) + 1] = b
      /\ \A k \in 1..Len(arrived) : arrived'[k] = arrived[k]
  BY <1>1, <1>2, AppendProperties
<1>6. /\ rx' \in Seq(Word) /\ Len(rx') = Len(rx) + 1
      /\ rx'[Len(rx) + 1] = Absorb(rx[Len(rx)], b)
      /\ \A k \in 1..Len(rx) : rx'[k] = rx[k]
  BY <1>1, <1>2, <1>4, AppendProperties
<1> QED
  BY <1>1, <1>5, <1>6

LEMMA TypeStep == LineTypeOK /\ [LineNext]_lineVars => LineTypeOK'
<1> SUFFICES ASSUME LineTypeOK, [LineNext]_lineVars
             PROVE  LineTypeOK'
  OBVIOUS
<1>a. /\ message \in Seq(Data) /\ tx \in Word /\ syndrome \in Word /\ damage \in Word
      /\ part \in {"data", "high", "low", "rest", "done"} /\ flips \in 0..MaxFlips
  BY DEF LineTypeOK
<1>b. ASSUME NEW b \in Byte, Arrives(b)
      PROVE  arrived' \in Seq(Byte) /\ rx' \in Seq(Word) /\ Len(rx') = Len(arrived') + 1
  BY <1>b, Arriving
<1>c. ASSUME NEW f \in Byte, Flipped(f)
      PROVE  flips' \in 0..MaxFlips
  BY <1>a, <1>c, ByteWord, Crc16Assumption DEF Flipped
<1>d. Behind(arrived') \in {"rest", "done"}
  BY DEF Behind
<1>1. ASSUME NEW f \in Byte, NEW b \in Data, SendByte(b, f)
      PROVE  LineTypeOK'
  <2>1. b \in Byte /\ Xor(b, f) \in Byte
    BY DataBytes, XorByte
  <2>2. tx' \in Word /\ syndrome' \in Word /\ damage' \in Word
    BY <1>1, <1>a, <2>1, AbsorbLinear DEF SendByte
  <2>3. message' \in Seq(Data) /\ part' \in {"data", "high", "low", "rest", "done"}
    BY <1>1, <1>a DEF SendByte
  <2>4. arrived' \in Seq(Byte) /\ rx' \in Seq(Word) /\ Len(rx') = Len(arrived') + 1
    BY <1>1, <1>b, <2>1 DEF SendByte
  <2>5. flips' \in 0..MaxFlips
    BY <1>1, <1>c DEF SendByte
  <2> QED
    BY <2>2, <2>3, <2>4, <2>5 DEF LineTypeOK
<1>2. ASSUME NEW f \in Byte, SendHigh(f)
      PROVE  LineTypeOK'
  <2>1. HighByte(Swap(tx)) \in Byte
    BY <1>a, SwapCount, BytesOfWord
  <2>2. Xor(HighByte(Swap(tx)), f) \in Byte
    BY <2>1, XorByte
  <2>3. arrived' \in Seq(Byte) /\ rx' \in Seq(Word) /\ Len(rx') = Len(arrived') + 1
    BY <1>2, <1>b, <2>2 DEF SendHigh
  <2>4. flips' \in 0..MaxFlips
    BY <1>2, <1>c DEF SendHigh
  <2> QED
    BY <1>2, <1>a, <2>3, <2>4, ByteWord DEF SendHigh, LineTypeOK
<1>3. ASSUME NEW f \in Byte, SendLow(f)
      PROVE  LineTypeOK'
  <2>1. LowByte(Swap(tx)) \in Byte
    BY <1>a, SwapCount, BytesOfWord
  <2>2. Xor(LowByte(Swap(tx)), f) \in Byte
    BY <2>1, XorByte
  <2>3. arrived' \in Seq(Byte) /\ rx' \in Seq(Word) /\ Len(rx') = Len(arrived') + 1
    BY <1>3, <1>b, <2>2 DEF SendLow
  <2>4. flips' \in 0..MaxFlips
    BY <1>3, <1>c DEF SendLow
  <2>5. damage \union f \in Word
    BY <1>a, ByteWord DEF Word
  <2> QED
    BY <1>3, <1>a, <1>d, <2>3, <2>4, <2>5 DEF SendLow, LineTypeOK
<1>4. ASSUME NEW b \in Data, Fill(b)
      PROVE  LineTypeOK'
  <2>1. arrived' \in Seq(Byte) /\ rx' \in Seq(Word) /\ Len(rx') = Len(arrived') + 1
    BY <1>4, <1>b, DataBytes DEF Fill
  <2> QED
    BY <1>4, <1>a, <1>d, <2>1 DEF Fill, LineTypeOK
<1>5. CASE Again
  BY <1>5, Crc16Assumption DEF Again, Word, LineTypeOK
<1>6. CASE UNCHANGED lineVars
  BY <1>6 DEF lineVars, LineTypeOK
<1> QED
  BY <1>1, <1>2, <1>3, <1>4, <1>5, <1>6 DEF LineNext

\* The registers and the bytes keep their width.
THEOREM LineTyping == LineSpec => []LineTypeOK
<1>1. LineInit => LineTypeOK
  BY Crc16Assumption DEF LineInit, LineTypeOK, Word
<1> QED
  BY <1>1, TypeStep, PTL DEF LineSpec

-----------------------------------------------------------------------------
\* Where the frame lies in the buffer.

\* The checksum that arrived, with its flipped bits.
ChecksumIs(n, d) == WordOf(arrived[n + 1], arrived[n + 2]) = Xor(Swap(tx), d)

\* The bytes under the checksum come first, and leave in the register what the sender
\* has and what the flips leave; the two of the checksum follow.
ArrivedInv ==
  /\ part = "data" => Len(message) < 2 \/ Len(message) < Value(message[2]) + 2
  /\ part # "data" => Complete(message)
  /\ part \in {"data", "high"} => Len(arrived) = Len(message) /\ damage = {}
  /\ part = "low" => /\ Len(arrived) = Len(message) + 1
                     /\ damage \subseteq 8..15
                     /\ High(arrived[Len(message) + 1]) = Xor(Swap(tx) \ (0..7), damage)
  /\ part \in {"rest", "done"} => /\ Len(arrived) >= Len(message) + 2
                                  /\ ChecksumIs(Len(message), damage)
  /\ rx[Len(message) + 1] = Xor(tx, syndrome)

\* The first byte of the checksum ...
LEMMA HighArrives ==
  ASSUME NEW t \in Word, NEW f \in Byte
  PROVE  High(Xor(HighByte(Swap(t)), f)) = Xor(Swap(t) \ (0..7), High(f))
<1> DEFINE r == Swap(t)
<1>1. r \in Word
  BY SwapCount
<1> HIDE DEF r
<1>2. \A y : y \in High(HighByte(r)) <=> y \in r \ (0..7)
  <2>1. \A i \in r \ (0..7) : (i - 8) + 8 = i
    BY <1>1 DEF Word
  <2>2. \A y : y \in High(HighByte(r)) <=> \E i \in r \ (0..7) : y = (i - 8) + 8
    BY Zenon DEF High, HighByte
  <2> QED
    BY <2>1, <2>2
<1>3. \A a \in Byte, b \in Byte : High(Xor(a, b)) = Xor(High(a), High(b))
  <2> SUFFICES ASSUME NEW a \in Byte, NEW b \in Byte
               PROVE  High(Xor(a, b)) = Xor(High(a), High(b))
    OBVIOUS
  <2>1. \A i, j \in 0..7 : i + 8 = j + 8 => i = j
    OBVIOUS
  <2> QED
    BY <2>1, SMTT(30) DEF High, Xor, Byte
<1>4. High(HighByte(r)) = r \ (0..7)
  BY <1>2
<1> QED
  BY <1>1, <1>3, <1>4, BytesOfWord DEF r

\* ... and the second.
LEMMA LowArrives ==
  ASSUME NEW t \in Word, NEW f \in Byte, NEW d \in SUBSET (8..15)
  PROVE  Xor(Swap(t) \ (0..7), d) \union Xor(LowByte(Swap(t)), f) = Xor(Swap(t), d \union f)
<1> DEFINE h == Xor(Swap(t) \ (0..7), d)
<1>1. Swap(t) \subseteq 0..15 /\ f \subseteq 0..7
  BY SwapCount DEF Word, Byte
<1>2. \A x : x \in 0..7 => x \notin 8..15
  OBVIOUS
<1>3. ASSUME NEW x
      PROVE  x \in h \union Xor(LowByte(Swap(t)), f) <=> x \in Xor(Swap(t), d \union f)
  BY <1>1, <1>2, Zenon DEF Xor, LowByte
<1> QED
  BY <1>3

LEMMA ArrivedInit == LineInit => ArrivedInv
<1> SUFFICES ASSUME LineInit PROVE ArrivedInv
  OBVIOUS
<1>1. Xor(tx, syndrome) = {} /\ rx = <<{}>> /\ Len(message) = 0 /\ Len(arrived) = 0
  BY DEF LineInit, Xor
<1>2. rx[Len(message) + 1] = Xor(tx, syndrome)
  BY <1>1
<1> QED
  BY <1>1, <1>2 DEF LineInit, ArrivedInv

LEMMA ArrivedStep == LineTypeOK /\ ArrivedInv /\ [LineNext]_lineVars => ArrivedInv'
<1> SUFFICES ASSUME LineTypeOK, ArrivedInv, [LineNext]_lineVars
             PROVE  ArrivedInv'
  OBVIOUS
<1> DEFINE n == Len(message)
<1>a. /\ message \in Seq(Data) /\ n \in Nat /\ tx \in Word /\ syndrome \in Word
      /\ damage \in Word /\ Len(rx) = Len(arrived) + 1 /\ Len(arrived) \in Nat
  BY LenProperties DEF LineTypeOK
<1>b. /\ tx' \in Word /\ part' \in {"data", "high", "low", "rest", "done"}
  BY TypeStep DEF LineTypeOK
<1>1. ASSUME NEW f \in Byte, NEW b \in Data, SendByte(b, f)
      PROVE  ArrivedInv'
  <2>1. /\ part = "data" /\ message' = Append(message, b) /\ Arrives(Xor(b, f))
        /\ tx' = Absorb(tx, b) /\ syndrome' = Absorb(syndrome, f) /\ damage' = damage
        /\ part' = IF Complete(message') THEN "high" ELSE "data"
    BY <1>1 DEF SendByte
  <2>2. b \in Byte /\ Xor(b, f) \in Byte
    BY DataBytes, XorByte
  <2>3. Len(message') = n + 1 /\ n >= 2 => message'[2] = message[2]
    BY <1>a, <2>1, AppendProperties
  <2>4. Len(message') = n + 1
    BY <1>a, <2>1, AppendProperties
  <2>5. Len(arrived) = n /\ damage = {} /\ rx[n + 1] = Xor(tx, syndrome)
    BY <2>1 DEF ArrivedInv
  <2>6. /\ Len(arrived') = n + 1
        /\ rx'[n + 2] = Absorb(rx[n + 1], Xor(b, f))
    BY <2>1, <2>2, <2>5, Arriving
  <2>7. rx'[n + 2] = Xor(tx', syndrome')
    BY <1>a, <2>1, <2>2, <2>5, <2>6, AbsorbLinear
  <2>8. part' = "data" => Len(message') < 2 \/ Len(message') < Value(message'[2]) + 2
    <3> SUFFICES ASSUME part' = "data", Len(message') >= 2
                 PROVE  Len(message') < Value(message'[2]) + 2
      BY <1>a, <2>4
    <3>1. Len(message') # Value(message'[2]) + 2
      BY <2>1 DEF Complete
    <3>2. Value(message'[2]) \in Nat
      BY ValueIs, Zenon
    <3>3. CASE n >= 2
      <4>1. message'[2] = message[2] /\ n < Value(message[2]) + 2
        BY <1>a, <2>1, <2>3, <3>3 DEF ArrivedInv
      <4> QED
        BY <1>a, <2>4, <3>1, <3>2, <4>1
    <3>4. CASE n < 2
      BY <1>a, <2>4, <3>1, <3>2, <3>4
    <3> QED
      BY <1>a, <3>3, <3>4
  <2>9. rx'[Len(message') + 1] = Xor(tx', syndrome')
    BY <1>a, <2>4, <2>7
  <2> QED
    BY <1>a, <2>1, <2>4, <2>5, <2>6, <2>8, <2>9 DEF ArrivedInv
<1>2. ASSUME NEW b \in Byte, Arrives(b), UNCHANGED <<message, tx, syndrome>>, Len(arrived) >= n
      PROVE  rx'[Len(message') + 1] = Xor(tx', syndrome')
  <2>1. rx[n + 1] = Xor(tx, syndrome)
    BY DEF ArrivedInv
  <2>2. \A k \in 1..(Len(arrived) + 1) : rx'[k] = rx[k]
    BY <1>2, Arriving
  <2> QED
    BY <1>2, <1>a, <2>1, <2>2
<1>3. ASSUME NEW f \in Byte, SendHigh(f)
      PROVE  ArrivedInv'
  <2> DEFINE h == Xor(HighByte(Swap(tx)), f)
  <2>1. /\ part = "high" /\ part' = "low" /\ Arrives(h) /\ damage' = High(f)
        /\ UNCHANGED <<message, tx, syndrome>>
    BY <1>3 DEF SendHigh
  <2>2. h \in Byte
    BY <1>a, SwapCount, BytesOfWord, XorByte
  <2>3. Len(arrived) = n /\ Complete(message)
    BY <2>1 DEF ArrivedInv
  <2>4. High(h) = Xor(Swap(tx) \ (0..7), High(f))
    BY <1>a, HighArrives
  <2> HIDE DEF h
  <2>5. arrived'[n + 1] = h /\ Len(arrived') = n + 1
    BY <2>1, <2>2, <2>3, Arriving
  <2>6. High(f) \subseteq 8..15
    BY HighWord
  <2>7. rx'[Len(message') + 1] = Xor(tx', syndrome')
    BY <1>2, <1>a, <2>1, <2>2, <2>3
  <2> QED
    BY <2>1, <2>3, <2>4, <2>5, <2>6, <2>7 DEF ArrivedInv
<1>4. ASSUME NEW f \in Byte, SendLow(f)
      PROVE  ArrivedInv'
  <2> DEFINE l == Xor(LowByte(Swap(tx)), f)
  <2>1. /\ part = "low" /\ part' \in {"rest", "done"} /\ Arrives(l)
        /\ damage' = damage \union f /\ UNCHANGED <<message, tx, syndrome>>
    BY <1>4 DEF SendLow, Behind
  <2>2. l \in Byte
    BY <1>a, SwapCount, BytesOfWord, XorByte
  <2>3. /\ Len(arrived) = n + 1 /\ Complete(message) /\ damage \subseteq 8..15
        /\ High(arrived[n + 1]) = Xor(Swap(tx) \ (0..7), damage)
    BY <2>1 DEF ArrivedInv
  <2>4. High(arrived[n + 1]) \union l = Xor(Swap(tx), damage \union f)
    <3>1. damage \in SUBSET (8..15) /\ tx \in Word
      BY <1>a, <2>3
    <3>2. Xor(Swap(tx) \ (0..7), damage) \union Xor(LowByte(Swap(tx)), f)
            = Xor(Swap(tx), damage \union f)
      BY <3>1, LowArrives, Zenon
    <3> QED
      BY <2>3, <3>2
  <2> HIDE DEF l
  <2>5. arrived'[n + 2] = l /\ Len(arrived') = n + 2 /\ arrived'[n + 1] = arrived[n + 1]
    <3>1. /\ arrived'[Len(arrived) + 1] = l /\ Len(arrived') = Len(arrived) + 1
          /\ \A k \in 1..Len(arrived) : arrived'[k] = arrived[k]
      BY <2>1, <2>2, Arriving
    <3> QED
      BY <1>a, <2>3, <3>1
  <2>6. ChecksumIs(Len(message), damage)'
    BY <2>1, <2>4, <2>5 DEF ChecksumIs, WordOf
  <2>7. rx'[Len(message') + 1] = Xor(tx', syndrome')
    BY <1>2, <1>a, <2>1, <2>2, <2>3
  <2> QED
    BY <1>a, <2>1, <2>3, <2>5, <2>6, <2>7 DEF ArrivedInv
<1>5. ASSUME NEW b \in Data, Fill(b)
      PROVE  ArrivedInv'
  <2>1. /\ part = "rest" /\ part' \in {"rest", "done"} /\ Arrives(b) /\ b \in Byte
        /\ UNCHANGED <<message, tx, syndrome, damage>>
    BY <1>5, DataBytes DEF Fill, Behind
  <2>2. Len(arrived) >= n + 2 /\ Complete(message) /\ ChecksumIs(n, damage)
    BY <2>1 DEF ArrivedInv
  <2>3. Len(arrived') = Len(arrived) + 1 /\ \A k \in 1..Len(arrived) : arrived'[k] = arrived[k]
    BY <2>1, Arriving
  <2>4. arrived'[n + 1] = arrived[n + 1] /\ arrived'[n + 2] = arrived[n + 2]
    BY <1>a, <2>2, <2>3
  <2>5. ChecksumIs(Len(message), damage)'
    BY <2>1, <2>2, <2>4 DEF ChecksumIs
  <2>6. rx'[Len(message') + 1] = Xor(tx', syndrome')
    BY <1>2, <1>a, <2>1, <2>2
  <2> QED
    BY <1>a, <2>1, <2>2, <2>3, <2>5, <2>6 DEF ArrivedInv
<1>6. CASE Again
  <2>1. /\ Xor(tx', syndrome') = {} /\ rx' = <<{}>> /\ Len(message') = 0 /\ Len(arrived') = 0
        /\ part' = "data" /\ damage' = {}
    BY <1>6 DEF Again, Xor
  <2>2. rx'[Len(message') + 1] = Xor(tx', syndrome')
    BY <2>1
  <2> QED
    BY <2>1, <2>2 DEF ArrivedInv
<1>7. CASE UNCHANGED lineVars
  BY <1>7 DEF lineVars, ArrivedInv, ChecksumIs
<1> QED
  BY <1>1, <1>3, <1>4, <1>5, <1>6, <1>7 DEF LineNext

LEMMA ArrivedInvariant == LineSpec => []ArrivedInv
BY LineTyping, ArrivedInit, ArrivedStep, PTL DEF LineSpec

LEMMA SwapLinear ==
  ASSUME NEW a \in Word, NEW b \in Word
  PROVE  Swap(Xor(a, b)) = Xor(Swap(a), Swap(b))
<1>1. \A i, j \in 0..15 : (i + 8) % 16 = (j + 8) % 16 => i = j
  OBVIOUS
<1> QED
  BY <1>1, SMTT(30) DEF Swap, Xor, Word

\* With LEN intact, l2FrameCheck reads the checksum where it is and of what it is, ...
LEMMA InPlace ==
  ASSUME LineTypeOK, ArrivedInv, part = "done", LengthIntact
  PROVE  /\ Length + 2 = Len(message) /\ Length \in Nat
         /\ WordOf(arrived[Length + 3], arrived[Length + 4]) = Xor(Swap(tx), damage)
         /\ Swap(rx[Length + 3]) = Xor(Swap(tx), Swap(syndrome))
<1> DEFINE n == Len(message)
<1>1. n = Length + 2 /\ Length \in Nat
  BY ValueIs DEF ArrivedInv, Complete, Length, LengthIntact
<1>2. ChecksumIs(n, damage) /\ rx[n + 1] = Xor(tx, syndrome)
  BY DEF ArrivedInv
<1> HIDE DEF n
<1>3. Length + 3 = n + 1 /\ Length + 4 = n + 2
  BY <1>1
<1>4. WordOf(arrived[Length + 3], arrived[Length + 4]) = Xor(Swap(tx), damage)
  BY <1>2, <1>3 DEF ChecksumIs
<1>5. Swap(rx[Length + 3]) = Xor(Swap(tx), Swap(syndrome))
  BY <1>2, <1>3, SwapLinear DEF LineTypeOK
<1> QED
  BY <1>1, <1>4, <1>5 DEF n

\* ... so that l2FrameCheck, if LEN is intact, judges damage alike in every message.
THEOREM Linearity == LineSpec => []DependsOnDamageOnly
<1>1. LineTypeOK /\ ArrivedInv => DependsOnDamageOnly
  <2> SUFFICES ASSUME LineTypeOK, ArrivedInv, part = "done", LengthIntact
               PROVE  WordOf(arrived[Length + 3], arrived[Length + 4]) = Swap(rx[Length + 3])
                        <=> damage = Swap(syndrome)
    BY DEF DependsOnDamageOnly
  <2>1. \A a, b, c : Xor(a, b) = Xor(a, c) <=> b = c
    BY DEF Xor
  <2> QED
    BY <2>1, InPlace
<1> QED
  BY <1>1, LineTyping, ArrivedInvariant, PTL

-----------------------------------------------------------------------------
\* The remainder, for messages of any length.

\* The division is what its definition says.
LEMMA DivisionIs ==
  ASSUME NEW m \in Seq(Byte)
  PROVE  /\ Division(m)[0] = Polynomial(m)
         /\ \A k \in 1..(8 * Len(m)) : Division(m)[k] = Subtract(Division(m)[k - 1], 8 * Len(m) + 16 - k)
<1> DEFINE N == 8 * Len(m)
           X == SUBSET Int
           P == Polynomial(m)
           F == [k \in 1..N |-> [x \in X |-> Subtract(x, N + 16 - k)]]
           D == Division(m)
<1>1. N \in Nat
  BY LenProperties
<1>2. P \in X
  <2>1. \A j \in DOMAIN m : j \in Int /\ m[j] \subseteq Int
    BY LenProperties, ElementOfSeq DEF Byte
  <2>2. Len(m) \in Int
    BY LenProperties
  <2> QED
    BY <2>1, <2>2 DEF Polynomial
<1>d. D = CHOOSE d : d = [k \in 0..N |-> IF k = 0 THEN P ELSE Subtract(d[k - 1], N + 16 - k)]
  BY DEF Division
<1> HIDE DEF N, P, D
<1>3. ASSUME NEW x \in X, NEW e \in Int PROVE Subtract(x, e) \in X
  BY <1>3 DEF Subtract, Xor
<1>4. \A k \in 1..N, x \in X : F[k][x] = Subtract(x, N + 16 - k) /\ F[k][x] \in X
  BY <1>1, <1>3
<1>f. F \in [1..N -> [X -> X]]
  BY <1>4
<1> HIDE DEF F, X
<1>5. PICK h \in [0..N -> X] : h[0] = P /\ \A k \in 1..N : h[k] = F[k][h[k - 1]]
  BY <1>1, <1>2, <1>f, Recursion
<1>6. h = [k \in 0..N |-> IF k = 0 THEN P ELSE Subtract(h[k - 1], N + 16 - k)]
  <2>1. ASSUME NEW k \in 0..N PROVE h[k] = IF k = 0 THEN P ELSE Subtract(h[k - 1], N + 16 - k)
    BY <1>1, <1>4, <1>5
  <2>2. h = [k \in 0..N |-> h[k]]
    OBVIOUS
  <2> QED
    BY <2>1, <2>2
<1>7. D = [k \in 0..N |-> IF k = 0 THEN P ELSE Subtract(D[k - 1], N + 16 - k)]
  BY <1>6, <1>d, Zenon
<1>8. D[0] = P /\ \A k \in 1..N : D[k] = Subtract(D[k - 1], N + 16 - k)
  BY <1>1, <1>7
<1> QED
  BY <1>8 DEF N, P, D

LEMMA InPolynomial ==
  ASSUME NEW m, NEW y
  PROVE  y \in Polynomial(m) <=> \E j \in DOMAIN m : \E x \in m[j] : y = 8 * (Len(m) - j) + x + 16
<1> DEFINE Part(j) == {8 * (Len(m) - j) + x + 16 : x \in m[j]}
<1>1. Polynomial(m) = UNION {Part(j) : j \in DOMAIN m}
  BY DEF Polynomial
<1>2. \A j : y \in Part(j) <=> \E x \in m[j] : y = 8 * (Len(m) - j) + x + 16
  OBVIOUS
<1> HIDE DEF Part
<1>3. y \in Polynomial(m) <=> \E j \in DOMAIN m : y \in Part(j)
  BY <1>1
<1> QED
  BY <1>2, <1>3, Zenon

\* A message is a polynomial between x^16 and the highest power of its bits, ...
LEMMA PolynomialIs ==
  ASSUME NEW m \in Seq(Byte)
  PROVE  \A y \in Polynomial(m) : y \in 16..(8 * Len(m) + 15)
<1>1. Len(m) \in Nat /\ DOMAIN m = 1..Len(m) /\ \A j \in 1..Len(m) : m[j] \subseteq 0..7
  BY LenProperties, ElementOfSeq DEF Byte
<1>2. ASSUME NEW y \in Polynomial(m)
      PROVE  \E j \in 1..Len(m) : \E b \in 0..7 : y = 8 * (Len(m) - j) + b + 16
  <2>1. PICK j \in DOMAIN m : \E x \in m[j] : y = 8 * (Len(m) - j) + x + 16
    BY <1>2, InPolynomial
  <2>2. j \in 1..Len(m) /\ m[j] \subseteq 0..7
    BY <1>1
  <2> QED
    BY <2>1, <2>2
<1> QED
  BY <1>1, <1>2

\* ... and one more byte shifts it by eight.
LEMMA PolynomialOfAppend ==
  ASSUME NEW m \in Seq(Byte), NEW b \in Byte, NEW y \in Int
  PROVE  y \in Polynomial(Append(m, b)) <=> y - 8 \in Polynomial(m) \/ y - 16 \in b
<1> DEFINE n == Len(m)
           a == Append(m, b)
<1>1. n \in Nat /\ DOMAIN m = 1..n /\ \A j \in 1..n : m[j] \subseteq 0..7 /\ a[j] = m[j]
  BY LenProperties, ElementOfSeq, AppendProperties DEF Byte
<1>2. Len(a) = n + 1 /\ DOMAIN a = 1..(n + 1) /\ a[n + 1] = b /\ b \subseteq 0..7
  BY AppendProperties, LenProperties DEF Byte
<1>3. y \in Polynomial(a) <=> \E j \in 1..(n + 1) : \E x \in a[j] : y = 8 * (n + 1 - j) + x + 16
  <2> DEFINE l == n + 1
  <2>1. DOMAIN a = 1..l /\ Len(a) = l
    BY <1>2
  <2> HIDE DEF a, l
  <2>2. y \in Polynomial(a) <=> \E j \in DOMAIN a : \E x \in a[j] : y = 8 * (Len(a) - j) + x + 16
    BY InPolynomial
  <2>3. y \in Polynomial(a) <=> \E j \in 1..l : \E x \in a[j] : y = 8 * (l - j) + x + 16
    BY <2>1, <2>2
  <2> QED
    BY <2>3 DEF l
<1>4. y - 8 \in Polynomial(m) <=> \E j \in 1..n : \E x \in m[j] : y - 8 = 8 * (n - j) + x + 16
  <2>1. y - 8 \in Polynomial(m) <=> \E j \in DOMAIN m : \E x \in m[j] : y - 8 = 8 * (Len(m) - j) + x + 16
    BY InPolynomial
  <2>2. DOMAIN m = 1..n /\ n = Len(m)
    BY <1>1
  <2> HIDE DEF n
  <2> QED
    BY <2>1, <2>2
<1> HIDE DEF a, n
<1>5. ASSUME NEW j \in 1..n, NEW x \in m[j] PROVE y = 8 * (n + 1 - j) + x + 16 <=> y - 8 = 8 * (n - j) + x + 16
  <2>1. x \in Int
    BY <1>1
  <2> QED
    BY <1>1, <2>1
<1>6. (\E x \in b : y = 8 * (n + 1 - (n + 1)) + x + 16) <=> y - 16 \in b
  <2>1. \A x \in b : x \in Int
    BY <1>2
  <2>2. 8 * (n + 1 - (n + 1)) = 0
    BY <1>1
  <2> QED
    BY <2>1, <2>2
<1>7. (\E j \in 1..(n + 1) : \E x \in a[j] : y = 8 * (n + 1 - j) + x + 16)
        <=> \/ \E j \in 1..n : \E x \in m[j] : y = 8 * (n + 1 - j) + x + 16
            \/ \E x \in b : y = 8 * (n + 1 - (n + 1)) + x + 16
  <2>1. ASSUME NEW j \in 1..(n + 1) PROVE j \in 1..n \/ j = n + 1
    BY <1>1
  <2>2. n + 1 \in 1..(n + 1) /\ \A j \in 1..n : j \in 1..(n + 1)
    BY <1>1
  <2> QED
    BY <1>1, <1>2, <2>1, <2>2
<1>8. (\E j \in 1..n : \E x \in m[j] : y = 8 * (n + 1 - j) + x + 16) <=> y - 8 \in Polynomial(m)
  BY <1>4, <1>5
<1> QED
  BY <1>3, <1>6, <1>7, <1>8 DEF a

LEMMA SubtractIs ==
  ASSUME NEW r, NEW e, NEW y
  PROVE  y \in Subtract(r, e) <=> ~(y \in r <=> (e \in r /\ y \in {e, e - 1, e - 14, e - 16}))
BY DEF Subtract, Xor

\* After k subtractions, what is left has no power above the k-th from the top.
LEMMA DivisionBelow ==
  ASSUME NEW m \in Seq(Byte)
  PROVE  \A k \in 0..(8 * Len(m)) : \A y \in Division(m)[k] : y \in 0..(8 * Len(m) + 15 - k)
<1> DEFINE N == 8 * Len(m)
           D == Division(m)
           Below(k) == \A y \in D[k] : y \in 0..(N + 15 - k)
           S == {k \in Nat : k <= N => Below(k)}
<1>1. N \in Nat
  BY LenProperties
<1>2. D[0] = Polynomial(m) /\ \A k \in 1..N : D[k] = Subtract(D[k - 1], N + 16 - k)
  BY DivisionIs
<1>3. Below(0)
  BY <1>1, <1>2, PolynomialIs
<1> HIDE DEF D, N
<1>4. ASSUME NEW k \in Nat, k \in S PROVE k + 1 \in S
  <2> SUFFICES ASSUME k + 1 <= N, NEW y \in D[k + 1] PROVE y \in 0..(N + 15 - (k + 1))
    OBVIOUS
  <2> DEFINE e == N + 15 - k
  <2>1. e \in Nat /\ e >= 16 /\ N + 16 - (k + 1) = e /\ k + 1 \in 1..N /\ (k + 1) - 1 = k
    BY <1>1
  <2>2. D[k + 1] = Subtract(D[k], e)
    BY <1>2, <2>1
  <2>3. \A x \in D[k] : x \in 0..e
    BY <1>1, <1>4
  <2> HIDE DEF e
  <2>4. ~(y \in D[k] <=> (e \in D[k] /\ y \in {e, e - 1, e - 14, e - 16}))
    BY <2>2, SubtractIs
  <2>5. y \in 0..e /\ y # e
    BY <2>1, <2>3, <2>4
  <2>6. y \in 0..(e - 1)
    BY <2>1, <2>5
  <2> QED
    BY <1>1, <2>1, <2>6 DEF e
<1>5. 0 \in S
  BY <1>3
<1>6. Nat \subseteq S
  <2> HIDE DEF S
  <2> QED
    BY <1>4, <1>5, SetInduction
<1>7. \A k \in 0..N : Below(k)
  BY <1>1, <1>6
<1> QED
  BY <1>7 DEF N, D

\* The division of a longer message begins as that of the shorter one.
LEMMA DivisionOfAppend ==
  ASSUME NEW m \in Seq(Byte), NEW b \in Byte
  PROVE  \A k \in 0..(8 * Len(m)) : \A y \in Int :
           y \in Division(Append(m, b))[k] <=> ~(y - 8 \in Division(m)[k] <=> y - 16 \in b)
<1> DEFINE N == 8 * Len(m)
           D == Division(m)
           E == Division(Append(m, b))
           Same(k) == \A y \in Int : y \in E[k] <=> ~(y - 8 \in D[k] <=> y - 16 \in b)
           S == {k \in Nat : k <= N => Same(k)}
<1>1. N \in Nat /\ 8 * Len(Append(m, b)) = N + 8 /\ Append(m, b) \in Seq(Byte) /\ b \subseteq 0..7
  BY LenProperties, AppendProperties DEF Byte
<1>2. D[0] = Polynomial(m) /\ \A k \in 1..N : D[k] = Subtract(D[k - 1], N + 16 - k)
  BY DivisionIs
<1>3. E[0] = Polynomial(Append(m, b)) /\ \A k \in 1..(N + 8) : E[k] = Subtract(E[k - 1], N + 8 + 16 - k)
  BY <1>1, DivisionIs
<1>4. Same(0)
  <2> SUFFICES ASSUME NEW y \in Int PROVE y \in E[0] <=> ~(y - 8 \in D[0] <=> y - 16 \in b)
    OBVIOUS
  <2>1. y \in E[0] <=> y - 8 \in D[0] \/ y - 16 \in b
    BY <1>2, <1>3, PolynomialOfAppend
  <2>2. ~(y - 8 \in D[0] /\ y - 16 \in b)
    BY <1>1, <1>2, PolynomialIs
  <2> QED
    BY <2>1, <2>2
<1> HIDE DEF D, E, N
<1>5. ASSUME NEW k \in Nat, k \in S PROVE k + 1 \in S
  <2> SUFFICES ASSUME k + 1 <= N, NEW y \in Int
               PROVE  y \in E[k + 1] <=> ~(y - 8 \in D[k + 1] <=> y - 16 \in b)
    OBVIOUS
  <2> DEFINE e == N + 15 - k
  <2>1. /\ e \in Nat /\ e >= 16 /\ N + 16 - (k + 1) = e /\ N + 8 + 16 - (k + 1) = e + 8
        /\ k + 1 \in 1..N /\ k + 1 \in 1..(N + 8) /\ (k + 1) - 1 = k
    BY <1>1
  <2>2. D[k + 1] = Subtract(D[k], e) /\ E[k + 1] = Subtract(E[k], e + 8)
    BY <1>2, <1>3, <2>1
  <2>3. Same(k)
    <3>1. k <= N
      BY <1>1
    <3> HIDE DEF Same
    <3> QED
      BY <1>5, <3>1
  <2> DEFINE f == e + 8
  <2>4. f \in Int /\ f - 8 = e /\ f - 16 \notin b
    BY <1>1, <2>1
  <2>5. y \in {f, f - 1, f - 14, f - 16} <=> y - 8 \in {e, e - 1, e - 14, e - 16}
    <3>1. y = f <=> y - 8 = e
      BY <2>1
    <3>2. y = f - 1 <=> y - 8 = e - 1
      BY <2>1
    <3>3. y = f - 14 <=> y - 8 = e - 14
      BY <2>1
    <3>4. y = f - 16 <=> y - 8 = e - 16
      BY <2>1
    <3> HIDE DEF e, f
    <3> QED
      BY <3>1, <3>2, <3>3, <3>4
  <2>6. E[k + 1] = Subtract(E[k], f)
    BY <2>2
  <2> HIDE DEF e, f
  <2>7. f \in E[k] <=> e \in D[k]
    <3>1. f \in E[k] <=> ~(f - 8 \in D[k] <=> f - 16 \in b)
      BY <2>3, <2>4, Zenon
    <3> QED
      BY <2>4, <3>1
  <2>8. y \in E[k + 1] <=> ~(y \in E[k] <=> (f \in E[k] /\ y \in {f, f - 1, f - 14, f - 16}))
    BY <2>6, SubtractIs
  <2>9. y - 8 \in D[k + 1] <=> ~(y - 8 \in D[k] <=> (e \in D[k] /\ y - 8 \in {e, e - 1, e - 14, e - 16}))
    BY <2>2, SubtractIs
  <2>10. y \in E[k] <=> ~(y - 8 \in D[k] <=> y - 16 \in b)
    BY <2>3
  <2> QED
    BY <2>5, <2>7, <2>8, <2>9, <2>10, Zenon
<1>6. 0 \in S
  BY <1>4
<1>7. Nat \subseteq S
  <2> HIDE DEF S
  <2> QED
    BY <1>5, <1>6, SetInduction
<1>8. \A k \in 0..N : Same(k)
  <2> HIDE DEF Same
  <2> QED
    BY <1>1, <1>7
<1> QED
  BY <1>8 DEF N, D, E

\* One subtraction on the word where it stands in the polynomial is one round,
\* and the word is then one place further down.
LEMMA RoundSubtracts ==
  ASSUME NEW r \in Word, NEW j \in 0..7, NEW s, \A y \in Int : y \in s <=> y - (8 - j) \in r,
         NEW y \in Int
  PROVE  y \in Subtract(s, 23 - j) <=> y - (7 - j) \in Round(r)
<1> DEFINE e == 23 - j
           x == y - (7 - j)
<1>1. /\ e \in Int /\ e - (8 - j) = 15 /\ x \in Int /\ y - (8 - j) = x - 1
      /\ y \in {e, e - 1, e - 14, e - 16} <=> x \in {16, 15, 2, 0}
  OBVIOUS
<1> HIDE DEF e, x
<1>2. (e \in s <=> 15 \in r) /\ (y \in s <=> x - 1 \in r)
  BY <1>1
<1>3. y \in Subtract(s, e) <=> ~(y \in s <=> (e \in s /\ y \in {e, e - 1, e - 14, e - 16}))
  BY SubtractIs
<1>4. x \in Round(r) <=> ~((x \in 1..15 /\ x - 1 \in r) <=> (15 \in r /\ x \in Poly))
  BY RoundIs
<1>5. x - 1 \in r <=> (x \in 1..15 /\ x - 1 \in r) \/ (x = 16 /\ 15 \in r)
  BY <1>1 DEF Word
<1>6. y \in Subtract(s, e) <=> ~(x - 1 \in r <=> (15 \in r /\ x \in {16, 15, 2, 0}))
  BY <1>1, <1>2, <1>3, Zenon
<1>7. ASSUME x = 16
      PROVE  y \in Subtract(s, e) <=> x \in Round(r)
  BY <1>4, <1>5, <1>6, <1>7 DEF Poly
<1>8. ASSUME x # 16
      PROVE  y \in Subtract(s, e) <=> x \in Round(r)
  <2>1. x \in {16, 15, 2, 0} <=> x \in Poly
    BY <1>8 DEF Poly
  <2>2. x - 1 \in r <=> (x \in 1..15 /\ x - 1 \in r)
    BY <1>5, <1>8
  <2> QED
    BY <1>4, <1>6, <2>1, <2>2, Zenon
<1>9. y \in Subtract(s, e) <=> x \in Round(r)
  BY <1>7, <1>8
<1> QED
  BY <1>9 DEF e, x

\* One more byte takes the remainder to what the loops of crc16 make of it.
LEMMA AbsorbDivides ==
  ASSUME NEW m \in Seq(Byte), NEW b \in Byte
  PROVE  Remainder(m) \in Word /\ Remainder(Append(m, b)) = Absorb(Remainder(m), b)
<1> DEFINE N == 8 * Len(m)
           R == Division(m)[N]
           E == Division(Append(m, b))
           r0 == Xor(R, High(b))
           At(k, r) == \A y \in Int : y \in E[N + k] <=> y - (8 - k) \in r
<1>1. N \in Nat /\ 8 * Len(Append(m, b)) = N + 8 /\ Append(m, b) \in Seq(Byte) /\ b \subseteq 0..7
  BY LenProperties, AppendProperties DEF Byte
<1>2. Remainder(m) = R /\ Remainder(Append(m, b)) = E[N + 8]
  BY <1>1 DEF Remainder
<1>3. R \in Word
  <2>1. \A y \in R : y \in 0..(N + 15 - N)
    BY <1>1, DivisionBelow, SMTT(30)
  <2>2. N + 15 - N = 15
    BY <1>1
  <2> QED
    BY <2>1, <2>2 DEF Word
<1>4. E[N + 8] \subseteq Int
  <2> DEFINE p == N + 8
  <2>1. \A k \in 0..p : \A y \in E[k] : y \in 0..(p + 15 - k)
    BY <1>1, DivisionBelow
  <2>2. p \in Nat
    BY <1>1
  <2> HIDE DEF E, p
  <2>3. E[p] \subseteq Int
    BY <2>1, <2>2
  <2> QED
    BY <2>3 DEF p
<1>5. \A k \in 0..7 : E[N + (k + 1)] = Subtract(E[N + k], 23 - k)
  <2>1. \A k \in 1..(N + 8) : E[k] = Subtract(E[k - 1], N + 8 + 16 - k)
    BY <1>1, DivisionIs
  <2> HIDE DEF E, N
  <2> TAKE k \in 0..7
  <2> DEFINE p == N + (k + 1)
  <2>2. p \in 1..(N + 8) /\ p - 1 = N + k /\ N + 8 + 16 - p = 23 - k
    BY <1>1
  <2> HIDE DEF p
  <2>3. E[p] = Subtract(E[p - 1], N + 8 + 16 - p)
    BY <2>1, <2>2
  <2>4. E[p] = Subtract(E[N + k], 23 - k)
    BY <2>2, <2>3, Zenon
  <2> QED
    BY <2>4 DEF p
<1>6. r0 \in Word /\ \A y \in Int : y - 8 \in r0 <=> ~(y - 8 \in R <=> y - 16 \in b)
  <2>1. \A y \in Int : y - 8 \in High(b) <=> y - 16 \in b
    BY <1>1 DEF High
  <2>2. High(b) \in Word
    BY <1>1 DEF High, Word
  <2>3. \A y \in Int : y - 8 \in r0 <=> ~(y - 8 \in R <=> y - 8 \in High(b))
    BY DEF Xor
  <2>4. r0 \in Word
    BY <1>3, <2>2 DEF Xor, Word
  <2> HIDE DEF r0, R
  <2> QED
    BY <2>1, <2>3, <2>4
<1>7. At(0, r0)
  <2> DEFINE D == Division(m)
  <2>1. \A k \in 0..N : \A y \in Int : y \in E[k] <=> ~(y - 8 \in D[k] <=> y - 16 \in b)
    BY DivisionOfAppend
  <2>2. N \in 0..N /\ N + 0 = N /\ 8 - 0 = 8
    BY <1>1
  <2>3. R = D[N]
    OBVIOUS
  <2> HIDE DEF D, E, N, R, r0
  <2>4. \A y \in Int : y \in E[N] <=> ~(y - 8 \in R <=> y - 16 \in b)
    BY <2>1, <2>2, <2>3
  <2>5. \A y \in Int : y \in E[N] <=> y - 8 \in r0
    BY <1>6, <2>4
  <2> QED
    BY <2>2, <2>5
<1> HIDE DEF E, N, R, r0
<1>8. ASSUME NEW k \in 0..7, NEW r \in Word, At(k, r) PROVE Round(r) \in Word /\ At(k + 1, Round(r))
  <2>1. ASSUME NEW y \in Int PROVE y \in E[N + (k + 1)] <=> y - (8 - (k + 1)) \in Round(r)
    <3>1. E[N + (k + 1)] = Subtract(E[N + k], 23 - k)
      BY <1>5, Zenon
    <3>2. y \in Subtract(E[N + k], 23 - k) <=> y - (7 - k) \in Round(r)
      BY <1>8, RoundSubtracts
    <3>3. 8 - (k + 1) = 7 - k
      OBVIOUS
    <3> QED
      BY <3>1, <3>2, <3>3
  <2> QED
    BY <2>1, RoundIs
<1> DEFINE r1 == Round(r0)
           r2 == Round(r1)
           r3 == Round(r2)
           r4 == Round(r3)
           r5 == Round(r4)
           r6 == Round(r5)
           r7 == Round(r6)
           r8 == Round(r7)
<1>9. r8 = Absorb(R, b)
  BY DEF Absorb, Rounds8, Rounds4, Rounds2, r0
<1>10. At(8, r8)
  <2> HIDE DEF At
  <2>1. r1 \in Word /\ At(1, r1)
    BY <1>6, <1>7, <1>8
  <2> HIDE DEF r1
  <2>2. r2 \in Word /\ At(2, r2)
    BY <1>8, <2>1
  <2> HIDE DEF r2
  <2>3. r3 \in Word /\ At(3, r3)
    BY <1>8, <2>2
  <2> HIDE DEF r3
  <2>4. r4 \in Word /\ At(4, r4)
    BY <1>8, <2>3
  <2> HIDE DEF r4
  <2>5. r5 \in Word /\ At(5, r5)
    BY <1>8, <2>4
  <2> HIDE DEF r5
  <2>6. r6 \in Word /\ At(6, r6)
    BY <1>8, <2>5
  <2> HIDE DEF r6
  <2>7. r7 \in Word /\ At(7, r7)
    BY <1>8, <2>6
  <2> HIDE DEF r7
  <2> QED
    BY <1>8, <2>7
<1>11. r8 \in Word
  BY <1>6, RoundIs
<1> HIDE DEF r8
<1>12. E[N + 8] = r8
  <2>1. \A y \in Int : y \in E[N + 8] <=> y - (8 - 8) \in r8
    BY <1>10
  <2>2. \A y \in Int : y - (8 - 8) = y
    OBVIOUS
  <2>3. r8 \subseteq Int
    BY <1>11 DEF Word
  <2> QED
    BY <1>4, <2>1, <2>2, <2>3
<1> QED
  BY <1>2, <1>3, <1>9, <1>12

\* The loops of crc16 compute the remainder by the polynomial of the comment, for
\* messages of any length and content: on a longer message the division begins as on
\* the shorter one, and ends with the eight rounds of the inner loop.
THEOREM ComputesRemainder == LineSpec => []IsRemainder
<1>1. Remainder(<<>>) = {}
  <2>1. <<>> \in Seq(Byte) /\ 8 * Len(<<>>) = 0
    OBVIOUS
  <2>2. Division(<<>>)[0] = Polynomial(<<>>)
    BY <2>1, DivisionIs
  <2>3. Polynomial(<<>>) = {}
    BY DEF Polynomial
  <2> QED
    BY <2>1, <2>2, <2>3 DEF Remainder
<1>2. LineInit => IsRemainder
  BY <1>1 DEF LineInit, IsRemainder
<1>3. LineTypeOK /\ IsRemainder /\ [LineNext]_lineVars => IsRemainder'
  <2> SUFFICES ASSUME LineTypeOK, IsRemainder, [LineNext]_lineVars
               PROVE  IsRemainder'
    OBVIOUS
  <2>1. ASSUME NEW f \in Byte, NEW b \in Data, SendByte(b, f)
        PROVE  IsRemainder'
    <3>1. message \in Seq(Byte) /\ b \in Byte
      <4>1. Data \subseteq Byte /\ message \in Seq(Data)
        BY Crc16Assumption DEF LineTypeOK, Byte
      <4>2. \A j \in 1..Len(message) : message[j] \in Byte
        BY <4>1, ElementOfSeq
      <4> QED
        BY <4>1, <4>2, SeqDef, LenProperties
    <3>2. Remainder(Append(message, b)) = Absorb(Remainder(message), b)
      BY <3>1, AbsorbDivides
    <3> QED
      BY <2>1, <3>2 DEF SendByte, IsRemainder
  <2>2. CASE Again
    BY <1>1, <2>2 DEF Again, IsRemainder
  <2>3. CASE UNCHANGED <<message, tx>>
    BY <2>3 DEF IsRemainder
  <2> QED
    BY <2>1, <2>2, <2>3 DEF LineNext, SendHigh, SendLow, Fill, lineVars
<1> QED
  BY <1>2, <1>3, LineTyping, PTL DEF LineSpec

-----------------------------------------------------------------------------

\* Flipped bits are ones of the syndrome and of the damage to the checksum, up to
\* an even number.
ParityInv == flips % 2 = (Cardinality(syndrome) + Cardinality(damage)) % 2

\* No bit of the checksum is damaged before its first byte.
LEMMA DamageOfByte ==
  ASSUME ArrivedInv, NEW f \in Byte, NEW b \in Data, SendByte(b, f)
  PROVE  damage = {} /\ damage' = {}
BY DEF SendByte, ArrivedInv

LEMMA DamageOfHigh ==
  ASSUME ArrivedInv, NEW f \in Byte, SendHigh(f)
  PROVE  damage = {} /\ damage' = High(f)
BY DEF SendHigh, ArrivedInv

\* The second byte is not that of the first.
LEMMA DamageOfLow ==
  ASSUME ArrivedInv, NEW f \in Byte, SendLow(f)
  PROVE  damage \subseteq 8..15 /\ damage \intersect f = {} /\ damage' = damage \union f
<1>1. damage \subseteq 8..15 /\ damage' = damage \union f
  BY DEF SendLow, ArrivedInv
<1>2. \A i \in f : i \notin 8..15
  BY DEF Byte
<1> QED
  BY <1>1, <1>2

LEMMA DamageCount ==
  ASSUME LineTypeOK, ArrivedInv, NEW f \in Byte, SendLow(f)
  PROVE  Cardinality(damage') = Cardinality(damage) + Cardinality(f)
<1>1. /\ IsFiniteSet(damage) /\ IsFiniteSet(f) /\ Cardinality(f) \in Nat
      /\ Cardinality(damage) \in Nat
  BY WordFinite, ByteWord DEF LineTypeOK
<1>2. Cardinality(damage \union f)
        = Cardinality(damage) + Cardinality(f) - Cardinality(damage \intersect f)
  BY <1>1, FS_Union
<1>3. Cardinality({}) = 0
  BY FS_EmptySet
<1>4. damage \intersect f = {} /\ damage' = damage \union f
  BY DamageOfLow, Zenon
<1>5. Cardinality(damage \intersect f) = 0 /\ Cardinality(damage') = Cardinality(damage \union f)
  BY <1>3, <1>4, Zenon
<1> DEFINE c == Cardinality(damage)
           d == Cardinality(f)
           e == Cardinality(damage \union f)
<1>6. c \in Nat /\ d \in Nat /\ e = c + d - 0
  BY <1>1, <1>2, <1>5, Zenon
<1> HIDE DEF c, d, e
<1>7. e = c + d
  BY <1>6
<1> QED
  BY <1>5, <1>7 DEF c, d, e

LEMMA ParityInit == LineInit => ParityInv
BY FS_EmptySet DEF LineInit, ParityInv

\* Each step adds as many flips as it adds ones, up to an even number.
LEMMA ParityStep == LineTypeOK /\ ArrivedInv /\ ParityInv /\ [LineNext]_lineVars => ParityInv'
<1> SUFFICES ASSUME LineTypeOK, ArrivedInv, ParityInv, [LineNext]_lineVars
             PROVE  ParityInv'
  OBVIOUS
<1>b. /\ Cardinality(syndrome) \in Nat /\ Cardinality(damage) \in Nat
      /\ flips \in Nat
  BY WordFinite DEF LineTypeOK
<1>1. ASSUME NEW f \in Byte, NEW b \in Data, SendByte(b, f)
      PROVE  ParityInv'
  <2>2. damage = {} /\ damage' = {}
    BY <1>1, DamageOfByte
  <2>3. Cardinality(syndrome') % 2 = (Cardinality(syndrome) + Cardinality(f)) % 2
    <3>1. Xor(syndrome, High(f)) \in Word
      BY ByteWord, XorWord DEF LineTypeOK
    <3>2. Cardinality(syndrome') % 2 = Cardinality(Xor(syndrome, High(f))) % 2
      BY <1>1, <3>1, RoundsParity DEF SendByte, Absorb
    <3> QED
      BY <3>2, ByteWord, XorParity, HighCount DEF LineTypeOK
  <2>4. syndrome' \in Word /\ Cardinality(syndrome') \in Nat /\ Cardinality(f) \in Nat
    BY TypeStep, WordFinite, ByteWord DEF LineTypeOK
  <2>5. flips' = flips + Cardinality(f)
    BY <1>1 DEF SendByte, Flipped
  <2>6. Cardinality(damage) = 0 /\ Cardinality(damage') = 0
    BY <2>2, FS_EmptySet
  <2> DEFINE s == Cardinality(syndrome)
             t == Cardinality(syndrome')
             c == Cardinality(f)
  <2>7. /\ s \in Nat /\ t \in Nat /\ c \in Nat /\ flips \in Nat /\ flips' = flips + c
        /\ t % 2 = (s + c) % 2 /\ flips % 2 = s % 2
    BY <1>b, <2>3, <2>4, <2>5, <2>6 DEF ParityInv
  <2> HIDE DEF s, t, c
  <2>8. flips' % 2 = t % 2
    BY <2>7
  <2> QED
    BY <2>6, <2>7, <2>8 DEF ParityInv, t
<1>2. ASSUME NEW c \in Nat, flips' = flips + c, syndrome' = syndrome,
             Cardinality(damage') = Cardinality(damage) + c
      PROVE  ParityInv'
  <2> DEFINE s == Cardinality(syndrome)
             d == Cardinality(damage)
  <2>1. s \in Nat /\ d \in Nat /\ flips \in Nat /\ flips % 2 = (s + d) % 2
    BY <1>b DEF ParityInv
  <2>2. flips' = flips + c /\ Cardinality(syndrome') = s /\ Cardinality(damage') = d + c
    BY <1>2
  <2> HIDE DEF s, d
  <2>3. (flips + c) % 2 = (s + (d + c)) % 2
    BY <2>1
  <2> QED
    BY <2>2, <2>3 DEF ParityInv
<1>3. ASSUME NEW f \in Byte, SendHigh(f)
      PROVE  ParityInv'
  <2>1. damage = {} /\ damage' = High(f)
    BY <1>3, DamageOfHigh
  <2>2. Cardinality(damage) = 0 /\ Cardinality(damage') = Cardinality(f)
    BY <2>1, HighCount, FS_EmptySet
  <2>3. flips' = flips + Cardinality(f) /\ syndrome' = syndrome
    BY <1>3 DEF SendHigh, Flipped
  <2> QED
    BY <1>2, <2>2, <2>3, ByteWord
<1>4. ASSUME NEW f \in Byte, SendLow(f)
      PROVE  ParityInv'
  <2>1. Cardinality(damage') = Cardinality(damage) + Cardinality(f)
    BY <1>4, DamageCount
  <2>2. flips' = flips + Cardinality(f) /\ syndrome' = syndrome
    BY <1>4 DEF SendLow, Flipped
  <2> QED
    BY <1>2, <2>1, <2>2, ByteWord
<1>5. CASE Again
  BY <1>5, FS_EmptySet DEF Again, ParityInv
<1>6. CASE UNCHANGED <<flips, syndrome, damage>>
  BY <1>6 DEF ParityInv
<1> QED
  BY <1>1, <1>3, <1>4, <1>5, <1>6 DEF LineNext, Fill, lineVars

LEMMA ParityInvariant == LineSpec => []ParityInv
BY LineTyping, ArrivedInvariant, ParityInit, ParityStep, PTL DEF LineSpec

\* An accepted frame has its checksum damaged as its data is.
LEMMA AcceptedDamage ==
  ASSUME LineTypeOK, DependsOnDamageOnly, Accepted, LengthIntact
  PROVE  damage = Swap(syndrome) /\ Cardinality(damage) = Cardinality(syndrome)
<1>1. damage = Swap(syndrome)
  BY DEF Accepted, DependsOnDamageOnly
<1> QED
  BY <1>1, SwapCount DEF LineTypeOK

\* l2FrameCheck accepts a frame that is damaged elsewhere than in LEN only if an even
\* number of bits is wrong, wherever they are in a frame of whatever length.
OddFlipsAreSeen == Accepted /\ LengthIntact => flips % 2 = 0

THEOREM OddDamage == LineSpec => []OddFlipsAreSeen
<1>1. LineTypeOK /\ DependsOnDamageOnly /\ ParityInv => OddFlipsAreSeen
  <2> SUFFICES ASSUME LineTypeOK, DependsOnDamageOnly, ParityInv, Accepted, LengthIntact
               PROVE  flips % 2 = 0
    BY DEF OddFlipsAreSeen
  <2>1. Cardinality(damage) = Cardinality(syndrome) /\ Cardinality(syndrome) \in Nat
    BY AcceptedDamage, WordFinite DEF LineTypeOK
  <2> QED
    BY <2>1 DEF ParityInv
<1> QED
  BY <1>1, LineTyping, Linearity, ParityInvariant, PTL

-----------------------------------------------------------------------------
\* Two flipped bits.  The polynomial is x + 1 times x^15 + x + 1, and the powers of
\* x do not repeat modulo the second factor before the exponent 2^15 - 1.

Period == 32767
Residue == SUBSET (0..14)

\* x times a residue, with x^15 = x + 1.
Step15(r) == {y \in 0..14 : CASE y = 0 -> 14 \in r
                            [] y = 1 -> ~(0 \in r <=> 14 \in r)
                            [] OTHER -> y - 1 \in r}

\* The square of a residue: x^(2i), and for i above 7 x^(2i - 14) + x^(2i - 15).
Square(r) == {y \in 0..14 : CASE y = 0 -> 0 \in r
                            [] y % 2 = 1 -> (y + 15) \div 2 \in r
                            [] OTHER -> ~(y \div 2 \in r <=> (y + 14) \div 2 \in r)}

\* Residues with the same bits are the same.
LEMMA SameBits ==
  ASSUME NEW r \in Residue, NEW s \in Residue,
         \A y \in 0..14 : y \in r <=> y \in s
  PROVE  r = s
BY DEF Residue

\* The bits of x times a residue.
LEMMA StepBits ==
  ASSUME NEW r \in Residue
  PROVE  /\ Step15(r) \in Residue
         /\ 0 \in Step15(r) <=> 14 \in r
         /\ 1 \in Step15(r) <=> ~(0 \in r <=> 14 \in r)
         /\ \A y \in 2..14 : y \in Step15(r) <=> y - 1 \in r
BY DEF Step15, Residue

\* The bits of a square.
LEMMA SquareBits ==
  ASSUME NEW r \in Residue
  PROVE  /\ Square(r) \in Residue
         /\ 0 \in Square(r) <=> 0 \in r
         /\ \A h \in 0..6 : 2 * h + 1 \in Square(r) <=> h + 8 \in r
         /\ \A h \in 1..7 : 2 * h \in Square(r) <=> ~(h \in r <=> h + 7 \in r)
<1>1. Square(r) \in Residue
  BY DEF Square, Residue
<1>2. 0 \in Square(r) <=> 0 \in r
  BY DEF Square
<1>3. ASSUME NEW h \in 0..6 PROVE 2 * h + 1 \in Square(r) <=> h + 8 \in r
  <2>1. 2 * h + 1 \in 0..14 /\ 2 * h + 1 # 0 /\ (2 * h + 1) % 2 = 1 /\ ((2 * h + 1) + 15) \div 2 = h + 8
    OBVIOUS
  <2> QED
    BY <2>1 DEF Square
<1>4. ASSUME NEW h \in 1..7 PROVE 2 * h \in Square(r) <=> ~(h \in r <=> h + 7 \in r)
  <2>1. 2 * h \in 0..14 /\ 2 * h # 0 /\ (2 * h) % 2 # 1 /\ (2 * h) \div 2 = h /\ (2 * h + 14) \div 2 = h + 7
    OBVIOUS
  <2> QED
    BY <2>1 DEF Square
<1> QED
  BY <1>1, <1>2, <1>3, <1>4

\* Nothing is lost by a multiplication by x.
LEMMA StepOne ==
  ASSUME NEW r \in Residue, NEW s \in Residue, Step15(r) = Step15(s)
  PROVE  r = s
<1>1. ASSUME NEW y \in 0..14 PROVE y \in r <=> y \in s
  <2>1. CASE y = 14
    BY <2>1, StepBits
  <2>2. CASE y = 0
    BY <2>2, StepBits
  <2>3. CASE y \in 1..13
    <3>1. y + 1 \in 2..14 /\ (y + 1) - 1 = y
      BY <2>3
    <3> QED
      BY <3>1, StepBits
  <2> QED
    BY <2>1, <2>2, <2>3
<1> QED
  BY <1>1, SameBits

\* The square of x times r is x^2 times the square of r.
LEMMA SquareStep ==
  ASSUME NEW r \in Residue
  PROVE  Square(Step15(r)) = Step15(Step15(Square(r)))
<1> DEFINE s == Step15(r)
           q == Square(r)
           t == Step15(q)
<1>1. s \in Residue /\ q \in Residue /\ t \in Residue /\ Step15(t) \in Residue /\ Square(s) \in Residue
  BY StepBits, SquareBits
<1>2. /\ 0 \in s <=> 14 \in r
      /\ 1 \in s <=> ~(0 \in r <=> 14 \in r)
      /\ \A y \in 2..14 : y \in s <=> y - 1 \in r
  BY StepBits
<1>3. /\ 0 \in t <=> 14 \in q
      /\ 1 \in t <=> ~(0 \in q <=> 14 \in q)
      /\ \A y \in 2..14 : y \in t <=> y - 1 \in q
  BY <1>1, StepBits
<1>4. /\ 0 \in Step15(t) <=> 14 \in t
      /\ 1 \in Step15(t) <=> ~(0 \in t <=> 14 \in t)
      /\ \A y \in 2..14 : y \in Step15(t) <=> y - 1 \in t
  BY <1>1, StepBits
<1>5. /\ 0 \in q <=> 0 \in r
      /\ \A h \in 0..6 : 2 * h + 1 \in q <=> h + 8 \in r
      /\ \A h \in 1..7 : 2 * h \in q <=> ~(h \in r <=> h + 7 \in r)
  BY SquareBits
<1>6. /\ 0 \in Square(s) <=> 0 \in s
      /\ \A h \in 0..6 : 2 * h + 1 \in Square(s) <=> h + 8 \in s
      /\ \A h \in 1..7 : 2 * h \in Square(s) <=> ~(h \in s <=> h + 7 \in s)
  BY <1>1, SquareBits
<1> HIDE DEF s, q, t
<1>7. 0 \in Square(s) <=> 0 \in Step15(t)
  <2>1. 14 \in t <=> 2 * 6 + 1 \in q
    BY <1>3
  <2> QED
    BY <1>2, <1>4, <1>5, <1>6, <2>1
<1>8. ASSUME NEW h \in 0..6 PROVE 2 * h + 1 \in Square(s) <=> 2 * h + 1 \in Step15(t)
  <2>1. 2 * h + 1 \in Square(s) <=> h + 7 \in r
    <3>1. h + 8 \in 2..14 /\ (h + 8) - 1 = h + 7
      OBVIOUS
    <3> QED
      BY <1>2, <1>6, <3>1
  <2>2. CASE h = 0
    <3>1. 14 \in t <=> 2 * 6 + 1 \in q
      BY <1>3
    <3>2. 2 * 6 + 1 \in q <=> 14 \in r
      BY <1>5
    <3>3. 0 \in t <=> 2 * 7 \in q
      BY <1>3
    <3>4. 2 * 7 \in q <=> ~(7 \in r <=> 14 \in r)
      BY <1>5
    <3> QED
      BY <1>4, <2>1, <2>2, <3>1, <3>2, <3>3, <3>4
  <2>3. CASE h = 1
    <3>1. 3 \in Step15(t) <=> 2 \in t
      BY <1>4
    <3>2. 2 \in t <=> 2 * 0 + 1 \in q
      BY <1>3
    <3>3. 2 * 0 + 1 \in q <=> 8 \in r
      BY <1>5
    <3> QED
      BY <2>1, <2>3, <3>1, <3>2, <3>3
  <2>4. CASE h \in 2..6
    <3>1. 2 * h + 1 \in 2..14 /\ (2 * h + 1) - 1 = 2 * h /\ 2 * h \in 2..14 /\ h - 1 \in 0..6
          /\ 2 * h - 1 = 2 * (h - 1) + 1 /\ (h - 1) + 8 = h + 7
      BY <2>4
    <3>2. 2 * h + 1 \in Step15(t) <=> 2 * (h - 1) + 1 \in q
      BY <1>3, <1>4, <3>1
    <3>3. 2 * (h - 1) + 1 \in q <=> h + 7 \in r
      BY <1>5, <3>1
    <3> QED
      BY <2>1, <3>2, <3>3
  <2> QED
    BY <2>2, <2>3, <2>4
<1>9. ASSUME NEW h \in 1..7 PROVE 2 * h \in Square(s) <=> 2 * h \in Step15(t)
  <2>1. 2 * h \in Square(s) <=> ~(h \in s <=> h + 7 \in s)
    BY <1>6
  <2>2. h + 7 \in s <=> h + 6 \in r
    <3>1. h + 7 \in 2..14 /\ (h + 7) - 1 = h + 6
      OBVIOUS
    <3> QED
      BY <1>2, <3>1
  <2>3. CASE h = 1
    <3>1. 2 \in Step15(t) <=> 1 \in t
      BY <1>4
    <3>2. 14 \in q <=> ~(7 \in r <=> 14 \in r)
      <4>1. 2 * 7 \in q <=> ~(7 \in r <=> 7 + 7 \in r)
        BY <1>5
      <4> QED
        BY <4>1
    <3>3. 1 \in t <=> ~(0 \in r <=> ~(7 \in r <=> 14 \in r))
      BY <1>3, <1>5, <3>2
    <3>4. 1 \in s <=> ~(0 \in r <=> 14 \in r)
      BY <1>2
    <3> QED
      BY <2>1, <2>2, <2>3, <3>1, <3>3, <3>4
  <2>4. CASE h \in 2..7
    <3>1. 2 * h \in 2..14 /\ 2 * h - 1 \in 2..14 /\ (2 * h - 1) - 1 = 2 * (h - 1) /\ h - 1 \in 1..7
          /\ (h - 1) + 7 = h + 6 /\ h \in 2..14
      BY <2>4
    <3>2. 2 * h \in Step15(t) <=> 2 * (h - 1) \in q
      BY <1>3, <1>4, <3>1
    <3>3. 2 * (h - 1) \in q <=> ~(h - 1 \in r <=> h + 6 \in r)
      BY <1>5, <3>1
    <3>4. h \in s <=> h - 1 \in r
      BY <1>2, <3>1
    <3> QED
      BY <2>1, <2>2, <3>2, <3>3, <3>4
  <2> QED
    BY <2>3, <2>4
<1>10. ASSUME NEW y \in 0..14 PROVE y \in Square(s) <=> y \in Step15(t)
  <2>1. y = 0 \/ (\E h \in 0..6 : y = 2 * h + 1) \/ (\E h \in 1..7 : y = 2 * h)
    OBVIOUS
  <2> QED
    BY <1>7, <1>8, <1>9, <2>1
<1>11. Square(s) = Step15(t)
  BY <1>1, <1>10, SameBits
<1> QED
  BY <1>11 DEF s, q, t

\* The powers of x up to x^(2^15).
PowersOfX == CHOOSE h \in [0..(Period + 1) -> Residue] :
               h[0] = {0} /\ \A k \in 1..(Period + 1) : h[k] = Step15(h[k - 1])

\* The powers are what their definition says.
LEMMA PowersAre ==
  /\ PowersOfX \in [0..(Period + 1) -> Residue]
  /\ PowersOfX[0] = {0}
  /\ \A k \in 1..(Period + 1) : PowersOfX[k] = Step15(PowersOfX[k - 1])
<1> DEFINE N == Period + 1
           X == Residue
           c == {0}
           F == [k \in 1..N |-> [x \in X |-> Step15(x)]]
<1>1. N \in Nat /\ c \in X
  BY DEF Period, Residue
<1>2. \A x \in X : Step15(x) \in X
  BY StepBits
<1> HIDE DEF N, X, c
<1>3. F \in [1..N -> [X -> X]] /\ \A k \in 1..N, x \in X : F[k][x] = Step15(x)
  BY <1>2
<1> HIDE DEF F
<1>4. PICK h \in [0..N -> X] : h[0] = c /\ \A k \in 1..N : h[k] = F[k][h[k - 1]]
  BY <1>1, <1>3, Recursion
<1>5. \A k \in 1..N : h[k] = Step15(h[k - 1])
  <2>1. ASSUME NEW k \in 1..N PROVE h[k - 1] \in X
    BY <1>1
  <2> QED
    BY <1>3, <1>4, <2>1
<1> QED
  BY <1>4, <1>5 DEF PowersOfX, N, X, c

\* The value is hidden where the provers do not need it.
LEMMA PeriodNat == Period \in Nat
BY DEF Period

LEMMA PeriodIs == Period \in Nat /\ Period = 32767
BY DEF Period

\* One more power.
LEMMA PowerStep ==
  ASSUME NEW k \in 0..Period
  PROVE  PowersOfX[k] \in Residue /\ PowersOfX[k + 1] = Step15(PowersOfX[k])
<1>1. k \in 0..(Period + 1) /\ k + 1 \in 1..(Period + 1) /\ (k + 1) - 1 = k
  BY PeriodNat
<1> QED
  BY <1>1, PowersAre

\* A power of twice the exponent is the square.
LEMMA Doubled ==
  ASSUME NEW k \in Nat, 2 * k <= Period + 1
  PROVE  PowersOfX[2 * k] = Square(PowersOfX[k])
<1> DEFINE S == {j \in Nat : 2 * j <= Period + 1 => PowersOfX[2 * j] = Square(PowersOfX[j])}
<1>1. 0 \in S
  <2>1. Square({0}) = {0}
    BY DEF Square
  <2>2. 2 * 0 = 0
    OBVIOUS
  <2> QED
    BY <2>1, <2>2, PowersAre
<1>2. ASSUME NEW j \in Nat, j \in S PROVE j + 1 \in S
  <2> SUFFICES ASSUME 2 * (j + 1) <= Period + 1
               PROVE  PowersOfX[2 * (j + 1)] = Square(PowersOfX[j + 1])
    OBVIOUS
  <2>1. /\ j \in 0..Period /\ 2 * j \in 0..Period /\ 2 * j + 1 \in 0..Period
        /\ (2 * j + 1) + 1 = 2 * (j + 1) /\ 2 * j <= Period + 1
    BY PeriodNat
  <2>2. PowersOfX[2 * j] = Square(PowersOfX[j])
    BY <1>2, <2>1
  <2>3. PowersOfX[2 * (j + 1)] = Step15(Step15(PowersOfX[2 * j]))
    <3>1. PowersOfX[2 * j + 1] = Step15(PowersOfX[2 * j])
      BY <2>1, PowerStep
    <3>2. PowersOfX[(2 * j + 1) + 1] = Step15(PowersOfX[2 * j + 1])
      BY <2>1, PowerStep
    <3> QED
      BY <2>1, <3>1, <3>2
  <2>4. PowersOfX[j] \in Residue /\ PowersOfX[j + 1] = Step15(PowersOfX[j])
    BY <2>1, PowerStep
  <2> QED
    BY <2>2, <2>3, <2>4, SquareStep
<1> HIDE DEF S
<1>3. Nat \subseteq S
  BY <1>1, <1>2, SetInduction
<1>4. k \in S
  BY <1>3
<1> QED
  BY <1>4 DEF S

\* A power from the one of half its exponent.
IsPower(k, r) == PowersOfX[k] = r
Squares(r, s) == Square(r) = s
Steps(r, s) == Step15(r) = s

LEMMA PowerFromHalf ==
  ASSUME NEW k \in Nat, NEW n \in Nat, n = 2 * k, n <= Period + 1,
         NEW r, NEW s, IsPower(k, r), Squares(r, s)
  PROVE  IsPower(n, s)
BY Doubled DEF IsPower, Squares

\* And of the exponent after it.
LEMMA PowerAfterHalf ==
  ASSUME NEW k \in Nat, NEW n \in Nat, n = 2 * k + 1, n <= Period,
         NEW r, NEW s, NEW t, IsPower(k, r), Squares(r, s), Steps(s, t)
  PROVE  IsPower(n, t)
<1>1. 2 * k \in 0..Period /\ 2 * k <= Period + 1
  BY PeriodNat
<1>2. PowersOfX[2 * k] = s
  BY <1>1, Doubled DEF IsPower, Squares
<1> QED
  BY <1>1, <1>2, PowerStep DEF IsPower, Steps

\* The power to 2^15 - 1 is one, and that to its quotients by its prime factors is not.
LEMMA SomePowers ==
  /\ PowersOfX[217] # {0} /\ PowersOfX[1057] # {0} /\ PowersOfX[4681] # {0}
  /\ PowersOfX[Period] = {0}
<1>1. IsPower(1, {1})
  <2>1. Step15({0}) = {1}
    BY DEF Step15
  <2>2. 0 \in 0..Period /\ 0 + 1 = 1
    BY PeriodIs
  <2> QED
    BY <2>1, <2>2, PowersAre, PowerStep DEF IsPower
<1>2. IsPower(2, {2})
  <2>1. Squares({1}, {2})
    BY DEF Squares, Square
  <2>2. 1 \in Nat /\ 2 \in Nat /\ 2 = 2 * 1 /\ 2 <= Period + 1
    BY PeriodIs
  <2> QED
    BY <1>1, <2>1, <2>2, PowerFromHalf
<1>3. IsPower(3, {3})
  <2>1. Squares({1}, {2})
    BY DEF Squares, Square
  <2>2. Steps({2}, {3})
    BY DEF Steps, Step15
  <2>3. 1 \in Nat /\ 3 \in Nat /\ 3 = 2 * 1 + 1 /\ 3 <= Period
    BY PeriodIs
  <2> QED
    BY <1>1, <2>1, <2>2, <2>3, PowerAfterHalf
<1>4. IsPower(4, {4})
  <2>1. Squares({2}, {4})
    BY DEF Squares, Square
  <2>2. 2 \in Nat /\ 4 \in Nat /\ 4 = 2 * 2 /\ 4 <= Period + 1
    BY PeriodIs
  <2> QED
    BY <1>2, <2>1, <2>2, PowerFromHalf
<1>5. IsPower(6, {6})
  <2>1. Squares({3}, {6})
    BY DEF Squares, Square
  <2>2. 3 \in Nat /\ 6 \in Nat /\ 6 = 2 * 3 /\ 6 <= Period + 1
    BY PeriodIs
  <2> QED
    BY <1>3, <2>1, <2>2, PowerFromHalf
<1>6. IsPower(8, {8})
  <2>1. Squares({4}, {8})
    BY DEF Squares, Square
  <2>2. 4 \in Nat /\ 8 \in Nat /\ 8 = 2 * 4 /\ 8 <= Period + 1
    BY PeriodIs
  <2> QED
    BY <1>4, <2>1, <2>2, PowerFromHalf
<1>7. IsPower(9, {9})
  <2>1. Squares({4}, {8})
    BY DEF Squares, Square
  <2>2. Steps({8}, {9})
    BY DEF Steps, Step15
  <2>3. 4 \in Nat /\ 9 \in Nat /\ 9 = 2 * 4 + 1 /\ 9 <= Period
    BY PeriodIs
  <2> QED
    BY <1>4, <2>1, <2>2, <2>3, PowerAfterHalf
<1>8. IsPower(13, {13})
  <2>1. Squares({6}, {12})
    BY DEF Squares, Square
  <2>2. Steps({12}, {13})
    BY DEF Steps, Step15
  <2>3. 6 \in Nat /\ 13 \in Nat /\ 13 = 2 * 6 + 1 /\ 13 <= Period
    BY PeriodIs
  <2> QED
    BY <1>5, <2>1, <2>2, <2>3, PowerAfterHalf
<1>9. IsPower(16, {1, 2})
  <2>1. Squares({8}, {1, 2})
    BY DEF Squares, Square
  <2>2. 8 \in Nat /\ 16 \in Nat /\ 16 = 2 * 8 /\ 16 <= Period + 1
    BY PeriodIs
  <2> QED
    BY <1>6, <2>1, <2>2, PowerFromHalf
<1>10. IsPower(18, {3, 4})
  <2>1. Squares({9}, {3, 4})
    BY DEF Squares, Square
  <2>2. 9 \in Nat /\ 18 \in Nat /\ 18 = 2 * 9 /\ 18 <= Period + 1
    BY PeriodIs
  <2> QED
    BY <1>7, <2>1, <2>2, PowerFromHalf
<1>11. IsPower(27, {12, 13})
  <2>1. Squares({13}, {11, 12})
    BY DEF Squares, Square
  <2>2. Steps({11, 12}, {12, 13})
    BY DEF Steps, Step15
  <2>3. 13 \in Nat /\ 27 \in Nat /\ 27 = 2 * 13 + 1 /\ 27 <= Period
    BY PeriodIs
  <2> QED
    BY <1>8, <2>1, <2>2, <2>3, PowerAfterHalf
<1>12. IsPower(32, {2, 4})
  <2>1. Squares({1, 2}, {2, 4})
    BY DEF Squares, Square
  <2>2. 16 \in Nat /\ 32 \in Nat /\ 32 = 2 * 16 /\ 32 <= Period + 1
    BY PeriodIs
  <2> QED
    BY <1>9, <2>1, <2>2, PowerFromHalf
<1>13. IsPower(33, {3, 5})
  <2>1. Squares({1, 2}, {2, 4})
    BY DEF Squares, Square
  <2>2. Steps({2, 4}, {3, 5})
    BY DEF Steps, Step15
  <2>3. 16 \in Nat /\ 33 \in Nat /\ 33 = 2 * 16 + 1 /\ 33 <= Period
    BY PeriodIs
  <2> QED
    BY <1>9, <2>1, <2>2, <2>3, PowerAfterHalf
<1>14. IsPower(36, {6, 8})
  <2>1. Squares({3, 4}, {6, 8})
    BY DEF Squares, Square
  <2>2. 18 \in Nat /\ 36 \in Nat /\ 36 = 2 * 18 /\ 36 <= Period + 1
    BY PeriodIs
  <2> QED
    BY <1>10, <2>1, <2>2, PowerFromHalf
<1>15. IsPower(54, {9, 10, 11, 12})
  <2>1. Squares({12, 13}, {9, 10, 11, 12})
    BY DEF Squares, Square
  <2>2. 27 \in Nat /\ 54 \in Nat /\ 54 = 2 * 27 /\ 54 <= Period + 1
    BY PeriodIs
  <2> QED
    BY <1>11, <2>1, <2>2, PowerFromHalf
<1>16. IsPower(64, {4, 8})
  <2>1. Squares({2, 4}, {4, 8})
    BY DEF Squares, Square
  <2>2. 32 \in Nat /\ 64 \in Nat /\ 64 = 2 * 32 /\ 64 <= Period + 1
    BY PeriodIs
  <2> QED
    BY <1>12, <2>1, <2>2, PowerFromHalf
<1>17. IsPower(66, {6, 10})
  <2>1. Squares({3, 5}, {6, 10})
    BY DEF Squares, Square
  <2>2. 33 \in Nat /\ 66 \in Nat /\ 66 = 2 * 33 /\ 66 <= Period + 1
    BY PeriodIs
  <2> QED
    BY <1>13, <2>1, <2>2, PowerFromHalf
<1>18. IsPower(73, {2, 3, 13})
  <2>1. Squares({6, 8}, {1, 2, 12})
    BY DEF Squares, Square
  <2>2. Steps({1, 2, 12}, {2, 3, 13})
    BY DEF Steps, Step15
  <2>3. 36 \in Nat /\ 73 \in Nat /\ 73 = 2 * 36 + 1 /\ 73 <= Period
    BY PeriodIs
  <2> QED
    BY <1>14, <2>1, <2>2, <2>3, PowerAfterHalf
<1>19. IsPower(108, {3, 4, 5, 6, 7, 8, 9, 10})
  <2>1. Squares({9, 10, 11, 12}, {3, 4, 5, 6, 7, 8, 9, 10})
    BY DEF Squares, Square
  <2>2. 54 \in Nat /\ 108 \in Nat /\ 108 = 2 * 54 /\ 108 <= Period + 1
    BY PeriodIs
  <2> QED
    BY <1>15, <2>1, <2>2, PowerFromHalf
<1>20. IsPower(128, {1, 2, 8})
  <2>1. Squares({4, 8}, {1, 2, 8})
    BY DEF Squares, Square
  <2>2. 64 \in Nat /\ 128 \in Nat /\ 128 = 2 * 64 /\ 128 <= Period + 1
    BY PeriodIs
  <2> QED
    BY <1>16, <2>1, <2>2, PowerFromHalf
<1>21. IsPower(132, {5, 6, 12})
  <2>1. Squares({6, 10}, {5, 6, 12})
    BY DEF Squares, Square
  <2>2. 66 \in Nat /\ 132 \in Nat /\ 132 = 2 * 66 /\ 132 <= Period + 1
    BY PeriodIs
  <2> QED
    BY <1>17, <2>1, <2>2, PowerFromHalf
<1>22. IsPower(146, {4, 6, 11, 12})
  <2>1. Squares({2, 3, 13}, {4, 6, 11, 12})
    BY DEF Squares, Square
  <2>2. 73 \in Nat /\ 146 \in Nat /\ 146 = 2 * 73 /\ 146 <= Period + 1
    BY PeriodIs
  <2> QED
    BY <1>18, <2>1, <2>2, PowerFromHalf
<1>23. IsPower(217, {0, 1, 2, 3, 4, 5, 6, 9, 11, 13})
  <2>1. Squares({3, 4, 5, 6, 7, 8, 9, 10}, {1, 2, 3, 4, 5, 8, 10, 12, 14})
    BY DEF Squares, Square
  <2>2. Steps({1, 2, 3, 4, 5, 8, 10, 12, 14}, {0, 1, 2, 3, 4, 5, 6, 9, 11, 13})
    BY DEF Steps, Step15
  <2>3. 108 \in Nat /\ 217 \in Nat /\ 217 = 2 * 108 + 1 /\ 217 <= Period
    BY PeriodIs
  <2> QED
    BY <1>19, <2>1, <2>2, <2>3, PowerAfterHalf
<1>24. IsPower(256, {1, 4})
  <2>1. Squares({1, 2, 8}, {1, 4})
    BY DEF Squares, Square
  <2>2. 128 \in Nat /\ 256 \in Nat /\ 256 = 2 * 128 /\ 256 <= Period + 1
    BY PeriodIs
  <2> QED
    BY <1>20, <2>1, <2>2, PowerFromHalf
<1>25. IsPower(264, {9, 12})
  <2>1. Squares({5, 6, 12}, {9, 12})
    BY DEF Squares, Square
  <2>2. 132 \in Nat /\ 264 \in Nat /\ 264 = 2 * 132 /\ 264 <= Period + 1
    BY PeriodIs
  <2> QED
    BY <1>21, <2>1, <2>2, PowerFromHalf
<1>26. IsPower(292, {7, 9, 10, 12})
  <2>1. Squares({4, 6, 11, 12}, {7, 9, 10, 12})
    BY DEF Squares, Square
  <2>2. 146 \in Nat /\ 292 \in Nat /\ 292 = 2 * 146 /\ 292 <= Period + 1
    BY PeriodIs
  <2> QED
    BY <1>22, <2>1, <2>2, PowerFromHalf
<1>27. IsPower(512, {2, 8})
  <2>1. Squares({1, 4}, {2, 8})
    BY DEF Squares, Square
  <2>2. 256 \in Nat /\ 512 \in Nat /\ 512 = 2 * 256 /\ 512 <= Period + 1
    BY PeriodIs
  <2> QED
    BY <1>24, <2>1, <2>2, PowerFromHalf
<1>28. IsPower(528, {3, 4, 9, 10})
  <2>1. Squares({9, 12}, {3, 4, 9, 10})
    BY DEF Squares, Square
  <2>2. 264 \in Nat /\ 528 \in Nat /\ 528 = 2 * 264 /\ 528 <= Period + 1
    BY PeriodIs
  <2> QED
    BY <1>25, <2>1, <2>2, PowerFromHalf
<1>29. IsPower(585, {0, 1, 4, 5, 6, 7, 10, 11})
  <2>1. Squares({7, 9, 10, 12}, {3, 4, 5, 6, 9, 10, 14})
    BY DEF Squares, Square
  <2>2. Steps({3, 4, 5, 6, 9, 10, 14}, {0, 1, 4, 5, 6, 7, 10, 11})
    BY DEF Steps, Step15
  <2>3. 292 \in Nat /\ 585 \in Nat /\ 585 = 2 * 292 + 1 /\ 585 <= Period
    BY PeriodIs
  <2> QED
    BY <1>26, <2>1, <2>2, <2>3, PowerAfterHalf
<1>30. IsPower(1024, {1, 2, 4})
  <2>1. Squares({2, 8}, {1, 2, 4})
    BY DEF Squares, Square
  <2>2. 512 \in Nat /\ 1024 \in Nat /\ 1024 = 2 * 512 /\ 1024 <= Period + 1
    BY PeriodIs
  <2> QED
    BY <1>27, <2>1, <2>2, PowerFromHalf
<1>31. IsPower(1057, {4, 5, 6, 9})
  <2>1. Squares({3, 4, 9, 10}, {3, 4, 5, 8})
    BY DEF Squares, Square
  <2>2. Steps({3, 4, 5, 8}, {4, 5, 6, 9})
    BY DEF Steps, Step15
  <2>3. 528 \in Nat /\ 1057 \in Nat /\ 1057 = 2 * 528 + 1 /\ 1057 <= Period
    BY PeriodIs
  <2> QED
    BY <1>28, <2>1, <2>2, <2>3, PowerAfterHalf
<1>32. IsPower(1170, {0, 2, 5, 6, 7, 10, 12, 14})
  <2>1. Squares({0, 1, 4, 5, 6, 7, 10, 11}, {0, 2, 5, 6, 7, 10, 12, 14})
    BY DEF Squares, Square
  <2>2. 585 \in Nat /\ 1170 \in Nat /\ 1170 = 2 * 585 /\ 1170 <= Period + 1
    BY PeriodIs
  <2> QED
    BY <1>29, <2>1, <2>2, PowerFromHalf
<1>33. IsPower(2048, {2, 4, 8})
  <2>1. Squares({1, 2, 4}, {2, 4, 8})
    BY DEF Squares, Square
  <2>2. 1024 \in Nat /\ 2048 \in Nat /\ 2048 = 2 * 1024 /\ 2048 <= Period + 1
    BY PeriodIs
  <2> QED
    BY <1>30, <2>1, <2>2, PowerFromHalf
<1>34. IsPower(2340, {0, 4, 5, 6, 9, 12, 13})
  <2>1. Squares({0, 2, 5, 6, 7, 10, 12, 14}, {0, 4, 5, 6, 9, 12, 13})
    BY DEF Squares, Square
  <2>2. 1170 \in Nat /\ 2340 \in Nat /\ 2340 = 2 * 1170 /\ 2340 <= Period + 1
    BY PeriodIs
  <2> QED
    BY <1>32, <2>1, <2>2, PowerFromHalf
<1>35. IsPower(4096, {1, 2, 4, 8})
  <2>1. Squares({2, 4, 8}, {1, 2, 4, 8})
    BY DEF Squares, Square
  <2>2. 2048 \in Nat /\ 4096 \in Nat /\ 4096 = 2 * 2048 /\ 4096 <= Period + 1
    BY PeriodIs
  <2> QED
    BY <1>33, <2>1, <2>2, PowerFromHalf
<1>36. IsPower(4681, {1, 4, 5, 9, 10, 12})
  <2>1. Squares({0, 4, 5, 6, 9, 12, 13}, {0, 3, 4, 8, 9, 11})
    BY DEF Squares, Square
  <2>2. Steps({0, 3, 4, 8, 9, 11}, {1, 4, 5, 9, 10, 12})
    BY DEF Steps, Step15
  <2>3. 2340 \in Nat /\ 4681 \in Nat /\ 4681 = 2 * 2340 + 1 /\ 4681 <= Period
    BY PeriodIs
  <2> QED
    BY <1>34, <2>1, <2>2, <2>3, PowerAfterHalf
<1>37. IsPower(8192, {1, 4, 8})
  <2>1. Squares({1, 2, 4, 8}, {1, 4, 8})
    BY DEF Squares, Square
  <2>2. 4096 \in Nat /\ 8192 \in Nat /\ 8192 = 2 * 4096 /\ 8192 <= Period + 1
    BY PeriodIs
  <2> QED
    BY <1>35, <2>1, <2>2, PowerFromHalf
<1>38. IsPower(16384, {1, 8})
  <2>1. Squares({1, 4, 8}, {1, 8})
    BY DEF Squares, Square
  <2>2. 8192 \in Nat /\ 16384 \in Nat /\ 16384 = 2 * 8192 /\ 16384 <= Period + 1
    BY PeriodIs
  <2> QED
    BY <1>37, <2>1, <2>2, PowerFromHalf
<1>39. IsPower(32768, {1})
  <2>1. Squares({1, 8}, {1})
    BY DEF Squares, Square
  <2>2. 16384 \in Nat /\ 32768 \in Nat /\ 32768 = 2 * 16384 /\ 32768 <= Period + 1
    BY PeriodIs
  <2> QED
    BY <1>38, <2>1, <2>2, PowerFromHalf
<1>40. PowersOfX[Period] = {0}
  <2>1. Step15({0}) = {1}
    BY DEF Step15
  <2>2. Period \in 0..Period /\ Period + 1 = 32768
    BY PeriodIs
  <2>3. Step15(PowersOfX[Period]) = {1} /\ PowersOfX[Period] \in Residue /\ {0} \in Residue
    BY <2>2, <1>39, PowerStep DEF Residue, IsPower
  <2> QED
    BY <2>1, <2>3, StepOne
<1> QED
  BY <1>23, <1>31, <1>36, <1>40 DEF IsPower

\* After an exponent with power 1 the powers begin again.
Returns == {m \in 1..Period : PowersOfX[m] = {0}}

LEMMA AfterReturn ==
  ASSUME NEW m \in Returns, NEW b \in Nat, m + b <= Period
  PROVE  PowersOfX[m + b] = PowersOfX[b]
<1> DEFINE S == {j \in Nat : m + j <= Period => PowersOfX[m + j] = PowersOfX[j]}
<1>0. m \in Nat /\ m >= 1 /\ m <= Period /\ PowersOfX[m] = {0} /\ Period \in Nat
  BY PeriodNat DEF Returns
<1>1. 0 \in S
  <2>1. m + 0 = m
    BY <1>0
  <2> QED
    BY <1>0, <2>1, PowersAre
<1>2. ASSUME NEW j \in Nat, j \in S PROVE j + 1 \in S
  <2> SUFFICES ASSUME m + (j + 1) <= Period
               PROVE  PowersOfX[m + (j + 1)] = PowersOfX[j + 1]
    OBVIOUS
  <2>1. m + j \in 0..Period /\ j \in 0..Period /\ (m + j) + 1 = m + (j + 1) /\ m + j <= Period
    BY <1>0
  <2>2. PowersOfX[m + j] = PowersOfX[j]
    BY <1>2, <2>1
  <2>3. PowersOfX[j + 1] = Step15(PowersOfX[j])
    BY <2>1, PowerStep
  <2>4. PowersOfX[(m + j) + 1] = Step15(PowersOfX[m + j])
    BY <2>1, PowerStep
  <2> QED
    BY <2>1, <2>2, <2>3, <2>4
<1> HIDE DEF S
<1>3. Nat \subseteq S
  BY <1>1, <1>2, SetInduction
<1>4. b \in S
  BY <1>3
<1> QED
  BY <1>4 DEF S

\* And so do those of its multiples.
LEMMA Multiples ==
  ASSUME NEW m \in Returns, NEW j \in Nat, m * j <= Period
  PROVE  PowersOfX[m * j] = {0}
<1> DEFINE S == {k \in Nat : m * k <= Period => PowersOfX[m * k] = {0}}
<1>0. m \in Nat /\ Period \in Nat
  BY PeriodNat DEF Returns
<1>1. 0 \in S
  <2>1. m * 0 = 0
    BY <1>0
  <2> QED
    BY <2>1, PowersAre
<1>2. ASSUME NEW k \in Nat, k \in S PROVE k + 1 \in S
  <2> SUFFICES ASSUME m * (k + 1) <= Period
               PROVE  PowersOfX[m * (k + 1)] = {0}
    OBVIOUS
  <2> DEFINE p == m * k
  <2>1. m * (k + 1) = m + p /\ p \in Nat
    BY <1>0
  <2> HIDE DEF p
  <2>2. m + p <= Period /\ p <= Period
    BY <1>0, <2>1
  <2>3. PowersOfX[p] = {0}
    BY <1>2, <2>2 DEF p
  <2>4. PowersOfX[m + p] = PowersOfX[p]
    BY <2>1, <2>2, AfterReturn
  <2> QED
    BY <2>1, <2>3, <2>4
<1> HIDE DEF S
<1>3. Nat \subseteq S
  BY <1>1, <1>2, SetInduction
<1>4. j \in S
  BY <1>3
<1> QED
  BY <1>4 DEF S

\* Divisors of the period, and of the quotients by its prime factors.
DividesPeriod(m) == \E j \in Nat : m * j = Period
DividesQuotient(m) == \E i \in Nat : m * i \in {217, 1057, 4681}

\* What is left of Period after the multiples of the least of them is none.
LEMMA LeastDivides ==
  ASSUME NEW m \in Returns, \A n \in Returns : m <= n
  PROVE  DividesPeriod(m)
<1> SUFFICES \E j \in Nat : m * j = Period
  BY DEF DividesPeriod
<1> DEFINE j == Period \div m
           r == Period % m
<1>1. m \in Nat /\ m >= 1 /\ Period \in Nat
  BY PeriodNat DEF Returns
<1>2. j \in Nat /\ r \in 0..(m - 1) /\ Period = m * j + r
  BY <1>1
<1> HIDE DEF j, r
<1> DEFINE p == m * j
<1>3. p \in Nat /\ p + r = Period /\ p <= Period /\ r <= Period
  BY <1>1, <1>2
<1>4. CASE r = 0
  BY <1>2, <1>3, <1>4
<1>5. CASE r # 0
  <2>1. PowersOfX[p] = {0}
    BY <1>2, <1>3, Multiples
  <2>2. r \in 1..Period
    BY <1>2, <1>3, <1>5
  <2>3. CASE p = 0
    <3>1. j = 0 \/ j >= 1
      BY <1>2
    <3>2. j >= 1 => m * j >= m
      BY <1>1, <1>2
    <3>3. j = 0
      BY <1>1, <2>3, <3>1, <3>2
    <3>4. Period < m
      BY <1>1, <1>2, <2>3, <1>3
    <3> QED
      BY <1>1, <3>4 DEF Returns
  <2>4. CASE p # 0
    <3>1. p \in Returns
      BY <1>1, <1>3, <2>1, <2>4 DEF Returns
    <3> HIDE DEF p
    <3>2. PowersOfX[p + r] = PowersOfX[r]
      BY <1>2, <1>3, <3>1, AfterReturn
    <3>3. PowersOfX[r] = {0}
      BY <1>3, <3>2, SomePowers
    <3>4. r \in Returns
      BY <2>2, <3>3 DEF Returns
    <3> QED
      BY <1>1, <1>2, <3>4
  <2> QED
    BY <2>3, <2>4
<1> QED
  BY <1>4, <1>5

\* The small divisors of 2^15 - 1 are its prime factors 7, 31 and 151.
Factors(m, j) == m * j = 32767

LEMMA SmallDivisors ==
  ASSUME NEW m \in Nat, NEW j \in 1..181, Factors(m, j)
  PROVE  j \in {1, 7, 31, 151}
BY DEF Factors

\* A divisor other than the period divides one of the quotients.
LEMMA Divisors ==
  ASSUME NEW m \in Nat, DividesPeriod(m), m # Period
  PROVE  DividesQuotient(m)
<1>0. m # 32767 /\ \E j \in Nat : m * j = 32767
  BY PeriodIs DEF DividesPeriod
<1> PICK j \in Nat : m * j = 32767
  BY <1>0
<1> SUFFICES \E i \in Nat : m * i \in {217, 1057, 4681}
  BY DEF DividesQuotient
<1>1. j # 1 /\ j >= 1 /\ m >= 1
  BY <1>0
<1>2. CASE j <= 181
  <2>0. j \in 1..181
    BY <1>1, <1>2
  <2>1. j \in {7, 31, 151}
    <3>1. Factors(m, j)
      BY DEF Factors
    <3> QED
      BY <1>1, <2>0, <3>1, SmallDivisors
  <2>2. m \in {4681, 1057, 217}
    BY <2>1
  <2>3. m * 1 = m
    OBVIOUS
  <2> QED
    BY <2>2, <2>3
<1>3. CASE m <= 181
  <2>1. Factors(j, m) /\ m \in 1..181
    BY <1>1, <1>3 DEF Factors
  <2>2. m \in {1, 7, 31, 151}
    BY <2>1, SmallDivisors
  <2>3. 1 * 217 = 217 /\ 7 * 31 = 217 /\ 31 * 7 = 217 /\ 151 * 7 = 1057
    OBVIOUS
  <2> QED
    BY <2>2, <2>3
<1>4. j <= 181 \/ m <= 181
  <2> SUFFICES ASSUME j >= 182, m >= 182 PROVE FALSE
    OBVIOUS
  <2> DEFINE p == m * j
  <2>1. p >= 182 * j
    OBVIOUS
  <2>2. p = 32767
    OBVIOUS
  <2> HIDE DEF p
  <2> QED
    BY <2>1, <2>2
<1> QED
  BY <1>2, <1>3, <1>4

\* No power below 2^15 - 1 is the one of zero.
LEMMA NoShorterPeriod ==
  ASSUME NEW m \in Returns
  PROVE  m = Period
<1>1. Returns \subseteq Nat /\ Returns # {}
  BY PeriodNat DEF Returns
<1>2. PICK d \in Returns : \A n \in Returns : d <= n
  BY <1>1, Least
<1>3. DividesPeriod(d)
  BY <1>2, LeastDivides
<1>4. d = Period
  <2> SUFFICES ASSUME d # Period PROVE FALSE
    OBVIOUS
  <2>1. d \in Nat
    BY <1>1
  <2>2. DividesQuotient(d)
    BY <1>3, <2>1, Divisors
  <2> PICK i \in Nat : d * i \in {217, 1057, 4681}
    BY <2>2 DEF DividesQuotient
  <2>3. d * i <= Period
    BY <2>2, PeriodIs
  <2>4. PowersOfX[d * i] = {0}
    BY <1>2, <2>3, Multiples
  <2> QED
    BY <2>2, <2>4, SomePowers
<1> QED
  BY <1>1, <1>2, <1>4, PeriodNat DEF Returns

\* So they differ.
LEMMA PowersDiffer ==
  ASSUME NEW k \in Nat, NEW n \in Nat, k < n, n < Period
  PROVE  PowersOfX[k] # PowersOfX[n]
<1> DEFINE c == n - k
           S == {j \in Nat : j + c < Period => PowersOfX[j] # PowersOfX[j + c]}
<1>0. c \in Nat /\ c >= 1 /\ c < Period /\ Period \in Nat
  BY PeriodNat
<1> HIDE DEF c
<1>1. 0 \in S
  <2>1. 0 + c = c
    BY <1>0
  <2>2. c \notin Returns
    BY <1>0, NoShorterPeriod
  <2> QED
    BY <1>0, <2>1, <2>2, PowersAre DEF Returns
<1>2. ASSUME NEW j \in Nat, j \in S PROVE j + 1 \in S
  <2> SUFFICES ASSUME (j + 1) + c < Period
               PROVE  PowersOfX[j + 1] # PowersOfX[(j + 1) + c]
    OBVIOUS
  <2>1. j \in 0..Period /\ j + c \in 0..Period /\ (j + c) + 1 = (j + 1) + c /\ j + c < Period
    BY <1>0
  <2>2. PowersOfX[j] # PowersOfX[j + c]
    BY <1>2, <2>1
  <2>3. PowersOfX[j] \in Residue /\ PowersOfX[j + 1] = Step15(PowersOfX[j])
    BY <2>1, PowerStep
  <2>4. PowersOfX[j + c] \in Residue /\ PowersOfX[(j + c) + 1] = Step15(PowersOfX[j + c])
    BY <2>1, PowerStep
  <2> QED
    BY <2>1, <2>2, <2>3, <2>4, StepOne
<1> HIDE DEF S
<1>3. Nat \subseteq S
  BY <1>1, <1>2, SetInduction
<1>4. k \in S
  BY <1>3
<1>5. k + c = n
  BY DEF c
<1> QED
  BY <1>4, <1>5 DEF S

-----------------------------------------------------------------------------
\* Powers of x modulo the polynomial itself, which a round multiplies by x.

ShiftedOne == CHOOSE h \in [0..Period -> Word] :
                h[0] = {0} /\ \A k \in 1..Period : h[k] = Round(h[k - 1])

\* They are what their definition says.
LEMMA ShiftedAre ==
  /\ ShiftedOne \in [0..Period -> Word]
  /\ ShiftedOne[0] = {0}
  /\ \A k \in 1..Period : ShiftedOne[k] = Round(ShiftedOne[k - 1])
<1> DEFINE N == Period
           X == Word
           c == {0}
           F == [k \in 1..N |-> [x \in X |-> Round(x)]]
<1>1. N \in Nat /\ c \in X
  BY PeriodNat DEF Word
<1>2. \A x \in X : Round(x) \in X
  BY RoundLinear
<1> HIDE DEF N, X, c
<1>3. F \in [1..N -> [X -> X]] /\ \A k \in 1..N, x \in X : F[k][x] = Round(x)
  BY <1>2
<1> HIDE DEF F
<1>4. PICK h \in [0..N -> X] : h[0] = c /\ \A k \in 1..N : h[k] = F[k][h[k - 1]]
  BY <1>1, <1>3, Recursion
<1>5. \A k \in 1..N : h[k] = Round(h[k - 1])
  <2>1. ASSUME NEW k \in 1..N PROVE h[k - 1] \in X
    BY <1>1
  <2> QED
    BY <1>3, <1>4, <2>1
<1> QED
  BY <1>4, <1>5 DEF ShiftedOne, N, X, c

\* One more round.
LEMMA ShiftStep ==
  ASSUME NEW k \in Nat, k + 1 <= Period
  PROVE  ShiftedOne[k] \in Word /\ ShiftedOne[k + 1] = Round(ShiftedOne[k])
<1>1. k \in 0..Period /\ k + 1 \in 1..Period /\ (k + 1) - 1 = k
  BY PeriodNat
<1> QED
  BY <1>1, ShiftedAre

\* The first sixteen are single bits.
LEMMA ShiftedBit ==
  ASSUME NEW b \in 0..15
  PROVE  ShiftedOne[b] = {b}
<1> DEFINE S == {k \in Nat : k <= 15 => ShiftedOne[k] = {k}}
<1>1. 0 \in S
  BY ShiftedAre
<1>2. ASSUME NEW k \in Nat, k \in S PROVE k + 1 \in S
  <2> SUFFICES ASSUME k + 1 <= 15 PROVE ShiftedOne[k + 1] = {k + 1}
    OBVIOUS
  <2>1. ShiftedOne[k] = {k}
    BY <1>2
  <2>2. Round({k}) = {k + 1}
    BY DEF Round, ShiftLeft
  <2>3. k + 1 <= Period
    BY PeriodIs
  <2> QED
    BY <2>1, <2>2, <2>3, ShiftStep
<1> HIDE DEF S
<1>3. Nat \subseteq S
  BY <1>1, <1>2, SetInduction
<1>4. b \in S
  BY <1>3
<1> QED
  BY <1>4 DEF S

\* Eight rounds are eight places.
LEMMA ShiftedByte ==
  ASSUME NEW k \in Nat, k + 8 <= Period
  PROVE  /\ ShiftedOne[k] \in Word /\ ShiftedOne[k + 8] \in Word
         /\ ShiftedOne[k + 8] = Rounds8(ShiftedOne[k])
<1> DEFINE s == ShiftedOne
<1>1. /\ s[k] \in Word /\ s[k + 1] = Round(s[k])
      /\ s[(k + 1) + 1] = Round(s[k + 1])
      /\ s[(k + 2) + 1] = Round(s[k + 2])
      /\ s[(k + 3) + 1] = Round(s[k + 3])
      /\ s[(k + 4) + 1] = Round(s[k + 4])
      /\ s[(k + 5) + 1] = Round(s[k + 5])
      /\ s[(k + 6) + 1] = Round(s[k + 6])
      /\ s[(k + 7) + 1] = Round(s[k + 7])
  <2>1. ASSUME NEW n \in 0..7 PROVE s[k + n] \in Word /\ s[(k + n) + 1] = Round(s[k + n])
    <3>1. k + n \in Nat /\ (k + n) + 1 <= Period
      BY PeriodNat
    <3> QED
      BY <3>1, ShiftStep
  <2>2. s[k + 0] \in Word /\ s[(k + 0) + 1] = Round(s[k + 0]) /\ k + 0 = k
    BY <2>1
  <2> HIDE DEF s
  <2> QED
    BY <2>1, <2>2
<1>2. /\ (k + 1) + 1 = k + 2 /\ (k + 2) + 1 = k + 3 /\ (k + 3) + 1 = k + 4 /\ (k + 4) + 1 = k + 5
      /\ (k + 5) + 1 = k + 6 /\ (k + 6) + 1 = k + 7 /\ (k + 7) + 1 = k + 8
  OBVIOUS
<1> HIDE DEF s
<1>3. s[k + 8] = Rounds8(s[k])
  BY <1>1, <1>2 DEF Rounds8, Rounds4, Rounds2
<1>4. Rounds8(s[k]) \in Word
  BY <1>1, RoundsLinear
<1> QED
  BY <1>1, <1>3, <1>4 DEF s

\* The remainder by the factor x^15 + x + 1.
Reduce(r) == {y \in 0..14 : IF y \in {0, 1} THEN ~(y \in r <=> 15 \in r) ELSE y \in r}

\* What a round does is x times the remainder.
LEMMA ReduceRound ==
  ASSUME NEW r \in Word
  PROVE  Reduce(r) \in Residue /\ Reduce(Round(r)) = Step15(Reduce(r))
<1>1. Reduce(r) \in Residue /\ Reduce(Round(r)) \in Residue
  BY DEF Reduce, Residue
<1>2. Step15(Reduce(r)) \in Residue
  BY <1>1, StepBits
<1>3. \A x : x \in Round(r) <=> ~((x \in 1..15 /\ x - 1 \in r) <=> (15 \in r /\ x \in Poly))
  BY RoundIs
<1>4. ASSUME NEW y \in 0..14 PROVE y \in Reduce(Round(r)) <=> y \in Step15(Reduce(r))
  <2>1. y \in Round(r) <=> ~((y \in 1..15 /\ y - 1 \in r) <=> (15 \in r /\ y \in {0, 2, 15}))
    BY <1>3 DEF Poly
  <2>2. 15 \in Round(r) <=> ~(14 \in r <=> 15 \in r)
    BY <1>3 DEF Poly
  <2>3. CASE y = 0
    BY <2>1, <2>2, <2>3 DEF Reduce, Step15
  <2>4. CASE y = 1
    BY <2>1, <2>2, <2>4 DEF Reduce, Step15
  <2>5. CASE y = 2
    BY <2>1, <2>5 DEF Reduce, Step15
  <2>6. CASE y \in 3..14
    BY <2>1, <2>6 DEF Reduce, Step15
  <2> QED
    BY <2>3, <2>4, <2>5, <2>6
<1> QED
  BY <1>1, <1>2, <1>4, SameBits

\* So the remainders of the words are the powers above.
LEMMA ShiftedReduced ==
  ASSUME NEW b \in 0..Period
  PROVE  Reduce(ShiftedOne[b]) = PowersOfX[b]
<1> DEFINE S == {k \in Nat : k <= Period => Reduce(ShiftedOne[k]) = PowersOfX[k]}
<1>1. 0 \in S
  <2>1. Reduce({0}) = {0}
    BY DEF Reduce
  <2> QED
    BY <2>1, ShiftedAre, PowersAre
<1>2. ASSUME NEW k \in Nat, k \in S PROVE k + 1 \in S
  <2> SUFFICES ASSUME k + 1 <= Period PROVE Reduce(ShiftedOne[k + 1]) = PowersOfX[k + 1]
    OBVIOUS
  <2>1. k <= Period /\ k \in 0..Period
    BY PeriodNat
  <2>2. Reduce(ShiftedOne[k]) = PowersOfX[k]
    BY <1>2, <2>1
  <2>3. ShiftedOne[k] \in Word /\ ShiftedOne[k + 1] = Round(ShiftedOne[k])
    BY ShiftStep
  <2>4. PowersOfX[k + 1] = Step15(PowersOfX[k])
    BY <2>1, PowerStep
  <2> QED
    BY <2>2, <2>3, <2>4, ReduceRound
<1> HIDE DEF S
<1>3. Nat \subseteq S
  BY <1>1, <1>2, SetInduction
<1>4. b \in S /\ b <= Period
  BY <1>3, PeriodNat
<1> QED
  BY <1>4 DEF S

\* Two bits at different places leave different words behind.
LEMMA ShiftedDiffer ==
  ASSUME NEW k \in Nat, NEW n \in Nat, k < n, n < Period
  PROVE  ShiftedOne[k] # ShiftedOne[n]
<1>1. k \in 0..Period /\ n \in 0..Period
  BY PeriodNat
<1> QED
  BY <1>1, ShiftedReduced, PowersDiffer

-----------------------------------------------------------------------------
\* What one or two flipped bits leave in the syndrome, by the places they have in the
\* frame.
Leaves(n, low, high, s) ==
  /\ n = 0 => s = {}
  /\ n = 1 => \E k \in low..high : s = ShiftedOne[k]
  /\ n = 2 => \E k, l \in low..high : k < l /\ s = Xor(ShiftedOne[k], ShiftedOne[l])

\* Two bits of a byte.
LEMMA TwoOnes ==
  ASSUME NEW f \in Byte, Cardinality(f) = 2
  PROVE  \E i, j \in 0..7 : i < j /\ f = {i, j}
<1>1. IsFiniteSet(f) /\ f # {}
  BY WordFinite, ByteWord, FS_EmptySet
<1>2. PICK x : x \in f
  BY <1>1
<1>3. IsFiniteSet(f \ {x}) /\ Cardinality(f \ {x}) = 1
  BY <1>1, <1>2, FS_RemoveElement
<1>4. PICK y : f \ {x} = {y}
  BY <1>3, FS_Singleton
<1>5. x \in 0..7 /\ y \in 0..7 /\ x # y /\ f = {x, y} /\ f = {y, x}
  BY <1>2, <1>4 DEF Byte
<1>6. x < y \/ y < x
  BY <1>5
<1> QED
  BY <1>5, <1>6

\* A byte of flips stands below what came before it, eight places up in the register.
LEMMA NewFlips ==
  ASSUME NEW f \in Byte
  PROVE  Leaves(Cardinality(f), 16, 23, Rounds8(High(f)))
<1>1. ASSUME NEW i \in 0..7
      PROVE  /\ ShiftedOne[i + 8] = {i + 8} /\ i + 8 + 8 = i + 16
             /\ ShiftedOne[i + 8] \in Word /\ ShiftedOne[i + 16] = Rounds8(ShiftedOne[i + 8])
  <2>1. i + 8 \in Nat /\ i + 8 \in 0..15 /\ i + 8 + 8 = i + 16 /\ i + 8 + 8 <= Period
    BY PeriodIs
  <2> QED
    BY <2>1, ShiftedBit, ShiftedByte
<1>2. ASSUME Cardinality(f) = 0 PROVE Rounds8(High(f)) = {}
  <2>1. f = {}
    BY <1>2, WordFinite, ByteWord, FS_EmptySet
  <2>2. Round({}) = {}
    BY DEF Round, ShiftLeft
  <2>3. High(f) = {}
    BY <2>1 DEF High
  <2> QED
    BY <2>2, <2>3 DEF Rounds8, Rounds4, Rounds2
<1>3. ASSUME Cardinality(f) = 1 PROVE \E k \in 16..23 : Rounds8(High(f)) = ShiftedOne[k]
  <2>1. PICK i : f = {i}
    BY <1>3, WordFinite, ByteWord, FS_Singleton
  <2>2. i \in 0..7 /\ High(f) = {i + 8} /\ i + 16 \in 16..23
    BY <2>1 DEF High, Byte
  <2> QED
    BY <1>1, <2>2
<1>4. ASSUME Cardinality(f) = 2
      PROVE  \E k, l \in 16..23 : k < l /\ Rounds8(High(f)) = Xor(ShiftedOne[k], ShiftedOne[l])
  <2>1. PICK i, j \in 0..7 : i < j /\ f = {i, j}
    BY <1>4, TwoOnes
  <2>2. High(f) = Xor({i + 8}, {j + 8})
    BY <2>1 DEF High, Xor
  <2>3. Rounds8(High(f)) = Xor(ShiftedOne[i + 16], ShiftedOne[j + 16])
    <3> DEFINE a == ShiftedOne[i + 8]
               b == ShiftedOne[j + 8]
    <3>1. /\ a \in Word /\ a = {i + 8} /\ ShiftedOne[i + 16] = Rounds8(a)
          /\ b \in Word /\ b = {j + 8} /\ ShiftedOne[j + 16] = Rounds8(b)
      BY <1>1
    <3> HIDE DEF a, b
    <3>2. Rounds8(Xor(a, b)) = Xor(Rounds8(a), Rounds8(b))
      BY <3>1, RoundsLinear
    <3> QED
      BY <2>2, <3>1, <3>2
  <2>4. i + 16 \in 16..23 /\ j + 16 \in 16..23 /\ i + 16 < j + 16
    BY <2>1
  <2> QED
    BY <2>3, <2>4
<1> QED
  BY <1>2, <1>3, <1>4 DEF Leaves

\* Earlier flips move eight places up.
LEMMA OldFlips ==
  ASSUME NEW s \in Word, NEW n \in Nat, NEW top \in Nat, top + 8 <= Period,
         Leaves(n, 16, top, s)
  PROVE  Leaves(n, 24, top + 8, Rounds8(s))
<1>1. ASSUME NEW k \in 16..top
      PROVE  /\ k + 8 \in 24..(top + 8) /\ ShiftedOne[k] \in Word
             /\ Rounds8(ShiftedOne[k]) = ShiftedOne[k + 8]
  <2>1. k \in Nat /\ k + 8 <= Period /\ k + 8 \in 24..(top + 8)
    BY PeriodNat
  <2> QED
    BY <2>1, ShiftedByte
<1>2. ASSUME n = 0 PROVE Rounds8(s) = {}
  <2>1. Round({}) = {}
    BY DEF Round, ShiftLeft
  <2>2. s = {}
    BY <1>2 DEF Leaves
  <2> QED
    BY <2>1, <2>2 DEF Rounds8, Rounds4, Rounds2
<1>3. ASSUME n = 1 PROVE \E k \in 24..(top + 8) : Rounds8(s) = ShiftedOne[k]
  <2>1. PICK k \in 16..top : s = ShiftedOne[k]
    BY <1>3 DEF Leaves
  <2> QED
    BY <1>1, <2>1
<1>4. ASSUME n = 2
      PROVE  \E k, l \in 24..(top + 8) : k < l /\ Rounds8(s) = Xor(ShiftedOne[k], ShiftedOne[l])
  <2>1. PICK k, l \in 16..top : k < l /\ s = Xor(ShiftedOne[k], ShiftedOne[l])
    BY <1>4 DEF Leaves
  <2>2. Rounds8(s) = Xor(ShiftedOne[k + 8], ShiftedOne[l + 8])
    BY <1>1, <2>1, RoundsLinear
  <2>3. k + 8 < l + 8
    BY <2>1
  <2> QED
    BY <1>1, <2>2, <2>3
<1> QED
  BY <1>2, <1>3, <1>4 DEF Leaves

\* A byte adds its flips to those that came before it.
LEMMA FlipsOfByte ==
  ASSUME NEW s \in Word, NEW f \in Byte, NEW n \in Nat, NEW top \in Nat,
         15 <= top, top + 8 <= Period, Leaves(n, 16, top, s)
  PROVE  Leaves(n + Cardinality(f), 16, top + 8, Absorb(s, f))
<1> DEFINE c == Cardinality(f)
           old == Rounds8(s)
           new == Rounds8(High(f))
           N == 16..(top + 8)
<1>1. Absorb(s, f) = Xor(old, new)
  BY ByteWord, RoundsLinear DEF Absorb
<1>2. c \in Nat
  BY WordFinite, ByteWord
<1>3. Leaves(c, 16, 23, new)
  BY NewFlips
<1>4. Leaves(n, 24, top + 8, old)
  BY OldFlips
<1>5. \A k : (k \in 16..23 => k \in N) /\ (k \in 24..(top + 8) => k \in N)
  OBVIOUS
<1>6. \A k \in 16..23, l \in 24..(top + 8) : k < l
  OBVIOUS
<1> HIDE DEF c, old, new
<1>7. Xor(old, {}) = old /\ Xor({}, new) = new /\ Xor(old, new) = Xor(new, old)
  BY DEF Xor
<1>8. ASSUME n + c = 0 PROVE Xor(old, new) = {}
  <2>1. n = 0 /\ c = 0
    BY <1>2, <1>8
  <2> QED
    BY <1>3, <1>4, <1>7, <2>1 DEF Leaves
<1>9. ASSUME n + c = 1 PROVE \E k \in N : Xor(old, new) = ShiftedOne[k]
  <2>1. (n = 1 /\ c = 0) \/ (n = 0 /\ c = 1)
    BY <1>2, <1>9
  <2>2. CASE n = 1 /\ c = 0
    BY <1>3, <1>4, <1>5, <1>7, <2>2 DEF Leaves
  <2>3. CASE n = 0 /\ c = 1
    BY <1>3, <1>4, <1>5, <1>7, <2>3 DEF Leaves
  <2> QED
    BY <2>1, <2>2, <2>3
<1>10. ASSUME n + c = 2
       PROVE  \E k, l \in N : k < l /\ Xor(old, new) = Xor(ShiftedOne[k], ShiftedOne[l])
  <2>1. (n = 2 /\ c = 0) \/ (n = 1 /\ c = 1) \/ (n = 0 /\ c = 2)
    BY <1>2, <1>10
  <2>2. CASE n = 2 /\ c = 0
    BY <1>3, <1>4, <1>5, <1>7, <2>2 DEF Leaves
  <2>3. CASE n = 1 /\ c = 1
    <3>1. PICK l \in 24..(top + 8) : old = ShiftedOne[l]
      BY <1>4, <2>3 DEF Leaves
    <3>2. PICK k \in 16..23 : new = ShiftedOne[k]
      BY <1>3, <2>3 DEF Leaves
    <3> QED
      BY <1>5, <1>6, <1>7, <3>1, <3>2
  <2>4. CASE n = 0 /\ c = 2
    BY <1>3, <1>4, <1>5, <1>7, <2>4 DEF Leaves
  <2> QED
    BY <2>1, <2>2, <2>3, <2>4
<1> QED
  BY <1>1, <1>8, <1>9, <1>10 DEF Leaves, N, c

\* The flips under the checksum, and what they leave.
DataFlips == flips - Cardinality(damage)

PairInv ==
  /\ DataFlips \in Nat
  /\ Leaves(DataFlips, 16, 8 * Len(message) + 15, syndrome)

\* The exponents of a frame are less than the period, since LEN is a byte.
LEMMA FrameIsShort ==
  ASSUME LineTypeOK, ArrivedInv
  PROVE  /\ Len(message) \in Nat
         /\ part = "data" => 8 * Len(message) + 23 < Period
         /\ 8 * Len(message) + 15 < Period
<1> DEFINE n == Len(message)
           v == Value(message[2])
<1>1. n \in Nat /\ v \in 0..255
  <2>1. n \in Nat
    BY DEF LineTypeOK
  <2>2. v \in 0..255
    BY ValueIs, Zenon
  <2> QED
    BY <2>1, <2>2
<1>2. part = "data" => n < 2 \/ n < v + 2
  BY Zenon DEF ArrivedInv
<1>3. part # "data" => n = v + 2
  BY Zenon DEF ArrivedInv, Complete
<1> HIDE DEF n, v
<1>4. n <= 257 /\ (part = "data" => n <= 256)
  BY <1>1, <1>2, <1>3
<1>5. (part = "data" => 8 * n + 23 < Period) /\ 8 * n + 15 < Period
  BY <1>1, <1>4, PeriodIs
<1> QED
  BY <1>1, <1>5 DEF n

\* No byte was sent.
LEMMA PairInit == LineInit => PairInv
<1> SUFFICES ASSUME LineInit PROVE PairInv
  OBVIOUS
<1>1. flips = 0 /\ syndrome = {} /\ damage = {} /\ Cardinality({}) = 0
  BY FS_EmptySet DEF LineInit
<1>2. DataFlips = 0
  BY <1>1 DEF DataFlips
<1> QED
  BY <1>1, <1>2 DEF PairInv, Leaves

\* Each step tells its flips apart: those under the checksum leave what they should, the
\* others damage the checksum, each in a place of its own.
LEMMA PairStep ==
  ASSUME LineTypeOK, ArrivedInv, PairInv, [LineNext]_lineVars
  PROVE  PairInv'
<1>a. /\ damage \in Word /\ damage' \in Word /\ Cardinality(damage) \in Nat
      /\ Cardinality(damage') \in Nat
  BY TypeStep, WordFinite DEF LineTypeOK
<1>b. syndrome \in Word /\ flips \in Nat /\ message \in Seq(Data) /\ Len(message) \in Nat
  BY DEF LineTypeOK
<1>1. ASSUME NEW f \in Byte, NEW b \in Data, SendByte(b, f)
      PROVE  PairInv'
  <2> DEFINE top == 8 * Len(message) + 15
  <2>1. damage = {} /\ damage' = {} /\ Cardinality({}) = 0
    BY <1>1, DamageOfByte, FS_EmptySet
  <2>2. /\ flips' = flips + Cardinality(f) /\ syndrome' = Absorb(syndrome, f)
        /\ message' = Append(message, b) /\ part = "data"
    BY <1>1 DEF SendByte, Flipped
  <2>3. Cardinality(f) \in Nat
    BY ByteWord
  <2>4. DataFlips' = DataFlips + Cardinality(f)
    BY <2>1, <2>2, <2>3, <1>b DEF DataFlips
  <2>5. Len(message') = Len(message) + 1
    BY <1>b, <2>2
  <2>6. top \in Nat /\ 15 <= top /\ top + 8 <= Period /\ 8 * Len(message') + 15 = top + 8
    <3>1. 8 * Len(message) + 23 < Period
      BY <2>2, FrameIsShort
    <3> QED
      BY <1>b, <2>5, <3>1, PeriodNat
  <2>7. DataFlips \in Nat /\ Leaves(DataFlips, 16, top, syndrome)
    BY DEF PairInv
  <2> HIDE DEF top
  <2>8. Leaves(DataFlips + Cardinality(f), 16, top + 8, Absorb(syndrome, f))
    BY <1>b, <2>6, <2>7, FlipsOfByte
  <2>9. DataFlips' \in Nat /\ Leaves(DataFlips', 16, 8 * Len(message') + 15, syndrome')
    BY <2>2, <2>3, <2>4, <2>6, <2>7, <2>8
  <2> QED
    BY <2>9 DEF PairInv
<1>2. ASSUME flips' = flips + Cardinality(damage') - Cardinality(damage),
             UNCHANGED <<message, syndrome>>
      PROVE  PairInv'
  <2>1. DataFlips' = DataFlips
    BY <1>a, <1>b, <1>2 DEF DataFlips
  <2> QED
    BY <1>2, <2>1 DEF PairInv
<1>3. ASSUME NEW f \in Byte, SendHigh(f)
      PROVE  PairInv'
  <2>1. Cardinality(damage) = 0 /\ Cardinality(damage') = Cardinality(f)
    BY <1>3, DamageOfHigh, HighCount, FS_EmptySet
  <2>2. flips' = flips + Cardinality(f) /\ UNCHANGED <<message, syndrome>>
    BY <1>3 DEF SendHigh, Flipped
  <2> QED
    BY <1>2, <1>b, <2>1, <2>2, ByteWord
<1>4. ASSUME NEW f \in Byte, SendLow(f)
      PROVE  PairInv'
  <2>1. Cardinality(damage') = Cardinality(damage) + Cardinality(f)
    BY <1>4, DamageCount
  <2>2. flips' = flips + Cardinality(f) /\ UNCHANGED <<message, syndrome>>
    BY <1>4 DEF SendLow, Flipped
  <2> QED
    BY <1>2, <1>a, <1>b, <2>1, <2>2, ByteWord
<1>5. CASE Again
  <2>1. damage' = {} /\ Cardinality({}) = 0 /\ flips' = 0 /\ syndrome' = {}
    BY <1>5, FS_EmptySet DEF Again
  <2>2. DataFlips' = 0
    BY <2>1 DEF DataFlips
  <2> QED
    BY <2>1, <2>2 DEF PairInv, Leaves
<1>6. CASE UNCHANGED <<message, syndrome, damage, flips>>
  BY <1>6 DEF PairInv, DataFlips
<1> QED
  BY <1>1, <1>3, <1>4, <1>5, <1>6 DEF LineNext, Fill, lineVars

\* Two flips do not agree with an unbroken or with a broken checksum.
LEMMA PairSeen ==
  ASSUME LineTypeOK, DependsOnDamageOnly, ArrivedInv, PairInv, Accepted, LengthIntact
  PROVE  flips # 2
<1> DEFINE top == 8 * Len(message) + 15
           d == Cardinality(damage)
<1>1. damage = Swap(syndrome) /\ d = Cardinality(syndrome) /\ d \in Nat
  BY AcceptedDamage, WordFinite DEF LineTypeOK
<1>2. top \in Nat /\ top < Period /\ flips \in Nat
  BY FrameIsShort, PeriodNat DEF LineTypeOK
<1>3. DataFlips \in Nat /\ DataFlips = flips - d /\ Leaves(DataFlips, 16, top, syndrome)
  BY DEF PairInv, DataFlips
<1> HIDE DEF top, d
<1> SUFFICES ASSUME flips = 2 PROVE FALSE
  OBVIOUS
<1>4. (DataFlips = 0 /\ d = 2) \/ (DataFlips = 1 /\ d = 1) \/ (DataFlips = 2 /\ d = 0)
  BY <1>1, <1>3
<1>5. CASE DataFlips = 0 /\ d = 2
  <2>1. syndrome = {}
    BY <1>3, <1>5 DEF Leaves
  <2>2. Cardinality(syndrome) = 0
    BY <2>1, WordFinite, FS_EmptySet DEF LineTypeOK
  <2>3. d = 0
    BY <1>1, <2>2
  <2> QED
    BY <1>5, <2>3
<1>6. CASE DataFlips = 1 /\ d = 1
  <2>1. PICK k \in 16..top : syndrome = ShiftedOne[k]
    BY <1>3, <1>6 DEF Leaves
  <2>2. PICK i : syndrome = {i}
    BY <1>1, <1>6, WordFinite, FS_Singleton DEF LineTypeOK
  <2>3. i \in 0..15
    BY <2>2 DEF LineTypeOK, Word
  <2>4. ShiftedOne[i] = {i}
    BY <2>3, ShiftedBit
  <2>5. i \in Nat /\ k \in Nat /\ i < k /\ k < Period
    BY <1>2, <2>1, <2>3, PeriodNat
  <2> QED
    BY <2>1, <2>2, <2>4, <2>5, ShiftedDiffer
<1>7. CASE DataFlips = 2 /\ d = 0
  <2>1. PICK k, l \in 16..top : k < l /\ syndrome = Xor(ShiftedOne[k], ShiftedOne[l])
    BY <1>3, <1>7 DEF Leaves
  <2>2. syndrome = {}
    BY <1>1, <1>7, WordFinite, FS_EmptySet DEF LineTypeOK
  <2>3. ShiftedOne[k] = ShiftedOne[l]
    BY <2>1, <2>2 DEF Xor
  <2>4. k \in Nat /\ l \in Nat /\ l < Period
    BY <1>2, <2>1, PeriodNat
  <2> QED
    BY <2>1, <2>3, <2>4, ShiftedDiffer
<1> QED
  BY <1>4, <1>5, <1>6, <1>7

LEMMA PairInvariant == LineSpec => []PairInv
<1>1. LineTypeOK /\ ArrivedInv /\ PairInv /\ [LineNext]_lineVars => PairInv'
  BY PairStep
<1> QED
  BY <1>1, LineTyping, ArrivedInvariant, PairInit, PTL DEF LineSpec

\* l2FrameCheck accepts a damaged frame with an intact LEN only if four bits or more are
\* wrong, wherever they are in the frame and its checksum, for every LEN and content.
THEOREM FlipsSeen == LineSpec => []FlipsAreSeen
<1>1. LineTypeOK /\ DependsOnDamageOnly /\ ArrivedInv /\ PairInv /\ OddFlipsAreSeen => FlipsAreSeen
  <2> SUFFICES ASSUME LineTypeOK, DependsOnDamageOnly, ArrivedInv, PairInv, OddFlipsAreSeen,
                      Accepted, LengthIntact, flips > 0
               PROVE  flips >= 4 /\ flips % 2 = 0
    BY DEF FlipsAreSeen
  <2>1. flips % 2 = 0 /\ flips \in Nat /\ flips # 2
    BY PairSeen DEF OddFlipsAreSeen, LineTypeOK
  <2> QED
    BY <2>1
<1> QED
  BY <1>1, LineTyping, Linearity, ArrivedInvariant, OddDamage, PairInvariant, PTL

-----------------------------------------------------------------------------
\* Bursts of damage.

\* The register after each of eight rounds.
LEMMA EightRounds ==
  ASSUME NEW u \in Word
  PROVE  \E a \in [0..8 -> Word] :
           a[0] = u /\ a[8] = Rounds8(u) /\ \A i \in 0..7 : a[i + 1] = Round(a[i])
<1>1. PICK r1 \in Word : r1 = Round(u)
  BY RoundLinear
<1>2. PICK r2 \in Word : r2 = Round(r1)
  BY RoundLinear
<1>3. PICK r3 \in Word : r3 = Round(r2)
  BY RoundLinear
<1>4. PICK r4 \in Word : r4 = Round(r3)
  BY RoundLinear
<1>5. PICK r5 \in Word : r5 = Round(r4)
  BY RoundLinear
<1>6. PICK r6 \in Word : r6 = Round(r5)
  BY RoundLinear
<1>7. PICK r7 \in Word : r7 = Round(r6)
  BY RoundLinear
<1>8. PICK r8 \in Word : r8 = Round(r7)
  BY RoundLinear
<1> DEFINE a == [i \in 0..8 |-> CASE i = 0 -> u [] i = 1 -> r1 [] i = 2 -> r2
                                     [] i = 3 -> r3 [] i = 4 -> r4 [] i = 5 -> r5
                                     [] i = 6 -> r6 [] i = 7 -> r7 [] i = 8 -> r8]
<1>9. /\ a[0] = u /\ a[1] = r1 /\ a[2] = r2 /\ a[3] = r3 /\ a[4] = r4
      /\ a[5] = r5 /\ a[6] = r6 /\ a[7] = r7 /\ a[8] = r8
  OBVIOUS
<1>10. a \in [0..8 -> Word]
  <2>1. ASSUME NEW i \in 0..8 PROVE a[i] \in Word
    <3>1. \/ i = 0 \/ i = 1 \/ i = 2 \/ i = 3 \/ i = 4
          \/ i = 5 \/ i = 6 \/ i = 7 \/ i = 8
      OBVIOUS
    <3> HIDE DEF a
    <3> QED
      BY <1>9, <3>1
  <2> QED
    BY <2>1
<1> HIDE DEF a
<1>11. ASSUME NEW i \in 0..7 PROVE a[i + 1] = Round(a[i])
  <2>1. \/ i = 0 \/ i = 1 \/ i = 2 \/ i = 3
        \/ i = 4 \/ i = 5 \/ i = 6 \/ i = 7
    OBVIOUS
  <2> QED
    BY <1>1, <1>2, <1>3, <1>4, <1>5, <1>6, <1>7, <1>8, <1>9, <2>1
<1>12. a[8] = Rounds8(u)
  BY <1>1, <1>2, <1>3, <1>4, <1>5, <1>6, <1>7, <1>8, <1>9 DEF Rounds8, Rounds4, Rounds2
<1> QED
  BY <1>9, <1>10, <1>11, <1>12

\* A round whose bit 15 is not set moves the others one place, and one that leaves
\* bit 0 unset is of this kind.
LEMMA RoundMoves ==
  ASSUME NEW a \in Word, 15 \notin a \/ 0 \notin Round(a)
  PROVE  15 \notin a /\ \A x \in 0..15 : x \in Round(a) <=> x > 0 /\ x - 1 \in a
<1>1. 0 \in Round(a) <=> 15 \in a
  BY RoundIs DEF Poly
<1>2. 15 \notin a
  BY <1>1
<1> QED
  BY <1>2, RoundIs

\* Nothing disappears in eight rounds.
LEMMA NothingVanishes ==
  ASSUME NEW u \in Word, Rounds8(u) = {}
  PROVE  u = {}
<1>1. PICK a \in [0..8 -> Word] :
        a[0] = u /\ a[8] = Rounds8(u) /\ \A i \in 0..7 : a[i + 1] = Round(a[i])
  BY EightRounds
<1> DEFINE S == {i \in Nat : i <= 8 => a[8 - i] = {}}
<1>2. 0 \in S
  BY <1>1
<1>3. ASSUME NEW i \in Nat, i \in S PROVE i + 1 \in S
  <2> SUFFICES ASSUME i + 1 <= 8 PROVE a[8 - (i + 1)] = {}
    OBVIOUS
  <2> DEFINE k == 8 - (i + 1)
  <2>1. k \in 0..7 /\ k + 1 = 8 - i /\ a[k] \in Word
    OBVIOUS
  <2>2. Round(a[k]) = {}
    BY <1>1, <1>3, <2>1
  <2> HIDE DEF k
  <2>3. 15 \notin a[k] /\ \A x \in 0..15 : ~(x > 0 /\ x - 1 \in a[k])
    BY <2>1, <2>2, RoundMoves
  <2>5. ASSUME NEW y \in a[k] PROVE FALSE
    <3>1. y \in 0..14
      BY <2>1, <2>3 DEF Word
    <3>2. y + 1 \in 0..15 /\ y + 1 > 0 /\ (y + 1) - 1 = y
      BY <3>1
    <3> QED
      BY <2>3, <3>2
  <2> QED
    BY <2>5 DEF k
<1> HIDE DEF S
<1>4. 8 \in S
  BY <1>2, <1>3, SetInduction
<1> QED
  BY <1>1, <1>4 DEF S

\* Eight rounds take a low byte to the high one.
LEMMA RoundsOfByte ==
  ASSUME NEW f \in Byte
  PROVE  Rounds8(f) = High(f)
<1>1. PICK a \in [0..8 -> Word] :
        a[0] = f /\ a[8] = Rounds8(f) /\ \A i \in 0..7 : a[i + 1] = Round(a[i])
  BY ByteWord, EightRounds
<1> DEFINE S == {i \in Nat : i <= 8 => \A x \in 0..15 : x \in a[i] <=> x - i \in f}
<1>2. 0 \in S
  BY <1>1
<1>3. ASSUME NEW i \in Nat, i \in S PROVE i + 1 \in S
  <2> SUFFICES ASSUME i + 1 <= 8, NEW x \in 0..15 PROVE x \in a[i + 1] <=> x - (i + 1) \in f
    OBVIOUS
  <2>1. i \in 0..7 /\ a[i] \in Word /\ a[i + 1] = Round(a[i])
    BY <1>1
  <2>2. \A y \in 0..15 : y \in a[i] <=> y - i \in f
    BY <1>3, <2>1
  <2>3. f \subseteq 0..7
    BY DEF Byte
  <2>4. 15 \notin a[i]
    BY <2>1, <2>2, <2>3
  <2>5. x \in Round(a[i]) <=> x > 0 /\ x - 1 \in a[i]
    BY <2>1, <2>4, RoundMoves
  <2>6. CASE x = 0
    BY <2>1, <2>3, <2>5, <2>6
  <2>7. CASE x > 0
    <3>1. x - 1 \in 0..15 /\ (x - 1) - i = x - (i + 1)
      BY <2>7
    <3> QED
      BY <2>1, <2>2, <2>5, <2>7, <3>1
  <2> QED
    BY <2>6, <2>7
<1> HIDE DEF S
<1>4. 8 \in S
  BY <1>2, <1>3, SetInduction
<1>5. ASSUME NEW x \in 0..15 PROVE x \in Rounds8(f) <=> x \in High(f)
  <2>1. x \in Rounds8(f) <=> x - 8 \in f
    BY <1>1, <1>4 DEF S
  <2>2. x \in High(f) <=> x - 8 \in f
    BY DEF High, Byte
  <2> QED
    BY <2>1, <2>2
<1>6. Rounds8(f) \in Word /\ High(f) \in Word
  BY ByteWord, RoundsLinear
<1> QED
  BY <1>5, <1>6 DEF Word

\* What stood in the lower 8 + j places does not fit in the upper 8 - j of a byte after
\* eight rounds: before the last j of them it was above, and what ends there came from below.
LEMMA Window ==
  ASSUME NEW j \in 0..7, NEW u \in Word, u \subseteq 0..(7 + j), Rounds8(u) \subseteq j..7
  PROVE  u = {}
<1>1. PICK a \in [0..8 -> Word] :
        a[0] = u /\ a[8] = Rounds8(u) /\ \A i \in 0..7 : a[i + 1] = Round(a[i])
  BY EightRounds
<1> DEFINE Up == {i \in Nat : i <= 8 - j => a[i] \subseteq i..(7 + j + i)}
           Down == {i \in Nat : i <= j => a[8 - i] \subseteq (j - i)..(7 - i)}
<1>2. 8 - j \in Up
  <2>1. 0 \in Up
    <3>1. a[0] \subseteq 0..(7 + j + 0)
      BY <1>1
    <3> QED
      BY <3>1
  <2>2. ASSUME NEW i \in Nat, i \in Up PROVE i + 1 \in Up
    <3> SUFFICES ASSUME i + 1 <= 8 - j PROVE a[i + 1] \subseteq (i + 1)..(7 + j + (i + 1))
      OBVIOUS
    <3>1. i \in 0..7 /\ a[i] \in Word /\ a[i + 1] = Round(a[i])
      BY <1>1
    <3>2. a[i] \subseteq i..(7 + j + i) /\ 7 + j + i < 15
      BY <2>2
    <3>3. 15 \notin a[i]
      BY <3>2
    <3>4. \A x \in 0..15 : x \in Round(a[i]) <=> x > 0 /\ x - 1 \in a[i]
      BY <3>1, <3>3, RoundMoves
    <3>5. Round(a[i]) \in Word
      BY <3>1, RoundLinear
    <3>6. ASSUME NEW x \in Round(a[i]) PROVE x \in (i + 1)..(7 + j + (i + 1))
      <4>1. x \in 0..15 /\ x - 1 \in a[i]
        BY <3>4, <3>5, <3>6 DEF Word
      <4> QED
        BY <3>2, <4>1
    <3> QED
      BY <3>1, <3>6
  <2> HIDE DEF Up
  <2>3. Nat \subseteq Up
    BY <2>1, <2>2, SetInduction
  <2> QED
    BY <2>3
<1>3. j \in Down
  <2>1. 0 \in Down
    BY <1>1
  <2>2. ASSUME NEW i \in Nat, i \in Down PROVE i + 1 \in Down
    <3> SUFFICES ASSUME i + 1 <= j PROVE a[8 - (i + 1)] \subseteq (j - (i + 1))..(7 - (i + 1))
      OBVIOUS
    <3> DEFINE k == 8 - (i + 1)
    <3>1. k \in 0..7 /\ k + 1 = 8 - i /\ a[k] \in Word
      OBVIOUS
    <3>2. Round(a[k]) \subseteq (j - i)..(7 - i) /\ j - i > 0
      BY <1>1, <2>2, <3>1
    <3> HIDE DEF k
    <3>3. 0 \notin Round(a[k])
      BY <3>2
    <3>4. 15 \notin a[k] /\ \A x \in 0..15 : x \in Round(a[k]) <=> x > 0 /\ x - 1 \in a[k]
      BY <3>1, <3>3, RoundMoves
    <3>6. ASSUME NEW y \in a[k] PROVE y \in (j - (i + 1))..(7 - (i + 1))
      <4>1. y \in 0..14
        BY <3>1, <3>4 DEF Word
      <4>2. y + 1 \in 0..15 /\ y + 1 > 0 /\ (y + 1) - 1 = y
        BY <4>1
      <4>3. y + 1 \in Round(a[k])
        BY <3>4, <4>2
      <4> QED
        BY <3>2, <4>1, <4>3
    <3> QED
      BY <3>6 DEF k
  <2> HIDE DEF Down
  <2>3. Nat \subseteq Down
    BY <2>1, <2>2, SetInduction
  <2> QED
    BY <2>3
<1>4. a[8 - j] = {}
  <2>1. a[8 - j] \subseteq (8 - j)..15 /\ a[8 - j] \subseteq 0..(7 - j)
    BY <1>2, <1>3
  <2> QED
    BY <2>1
<1>5. a[8] = {}
  <2> DEFINE S == {i \in Nat : 8 - j + i <= 8 => a[8 - j + i] = {}}
  <2>1. 0 \in S
    BY <1>4
  <2>2. ASSUME NEW i \in Nat, i \in S PROVE i + 1 \in S
    <3> SUFFICES ASSUME 8 - j + (i + 1) <= 8 PROVE a[8 - j + (i + 1)] = {}
      OBVIOUS
    <3>1. 8 - j + i \in 0..7 /\ (8 - j + i) + 1 = 8 - j + (i + 1) /\ a[8 - j + i] = {}
      BY <2>2
    <3>2. Round({}) = {}
      BY DEF Round, ShiftLeft
    <3> QED
      BY <1>1, <3>1, <3>2
  <2> HIDE DEF S
  <2>3. j \in S
    BY <2>1, <2>2, SetInduction
  <2> QED
    BY <2>3 DEF S
<1> QED
  BY <1>1, <1>5, NothingVanishes

\* The places of a frame count from one in the order in which its bits are sent, the
\* highest of a byte first.
PlacesOf(k, f) == {8 * k - i : i \in f}

\* How far before the end of byte n places are.
Column(n, D) == {8 * n - q : q \in D}

\* As long as no damage is older than 16 places, the register has it where it is.
Recent(n, D, s) == (\A q \in D : 8 * n - q <= 15) => s = Rounds8(Rounds8(Column(n, D)))

\* Damage within 16 places leaves something in the register.
Traces(D, s) == \A p \in Nat : D # {} /\ D \subseteq p..(p + 15) => s # {}

LEMMA NoDamage ==
  ASSUME NEW n \in Nat, NEW s, Recent(n, {}, s)
  PROVE  s = {}
<1>1. Round({}) = {}
  BY DEF Round, ShiftLeft
<1>2. Rounds8({}) = {}
  BY <1>1 DEF Rounds8, Rounds4, Rounds2
<1>3. Column(n, {}) = {}
  BY DEF Column
<1> QED
  BY <1>2, <1>3 DEF Recent

\* One more byte moves damage that is not older than a byte ...
LEMMA RecentOfByte ==
  ASSUME NEW n \in Nat, NEW D \in SUBSET (1..(8 * n)), NEW s \in Word, NEW f \in Byte,
         Recent(n, D, s)
  PROVE  Recent(n + 1, D \union PlacesOf(n + 1, f), Absorb(s, f))
<1> DEFINE E == D \union PlacesOf(n + 1, f)
           u == Column(n, D)
<1> SUFFICES ASSUME \A q \in E : 8 * (n + 1) - q <= 15
             PROVE  Absorb(s, f) = Rounds8(Rounds8(Column(n + 1, E)))
  BY DEF Recent
<1>1. \A q \in D : q \in 1..(8 * n) /\ 8 * n - q <= 7 /\ 8 * n - q \in 0..7
  OBVIOUS
<1>2. u \in Byte /\ s = Rounds8(Rounds8(u))
  BY <1>1 DEF Column, Byte, Recent
<1>3. f \subseteq 0..7
  BY DEF Byte
<1>4. Column(n + 1, D) = High(u)
  <2>1. \A q \in D : 8 * (n + 1) - q = (8 * n - q) + 8
    BY <1>1
  <2> QED
    BY <2>1 DEF Column, High
<1>5. Column(n + 1, PlacesOf(n + 1, f)) = f
  <2>1. \A i \in f : 8 * (n + 1) - (8 * (n + 1) - i) = i
    BY <1>3
  <2> QED
    BY <2>1 DEF Column, PlacesOf
<1>6. Column(n + 1, E) = High(u) \union f
  BY <1>4, <1>5 DEF Column
<1>7. High(u) \union f = Xor(High(u), f)
  <2>1. High(u) \subseteq 8..15
    BY <1>2, HighWord
  <2> QED
    BY <1>3, <2>1 DEF Xor
<1> HIDE DEF E, u
<1>8. /\ High(u) \in Word /\ f \in Word /\ High(f) \in Word
      /\ Rounds8(u) = High(u) /\ Rounds8(f) = High(f)
  BY <1>2, ByteWord, RoundsOfByte
<1>9. Rounds8(Xor(High(u), f)) = Xor(s, High(f))
  BY <1>2, <1>8, RoundsLinear
<1> QED
  BY <1>6, <1>7, <1>9 DEF Absorb

\* ... and leaves a trace of all that is within 16 places.
LEMMA TracesOfByte ==
  ASSUME NEW n \in Nat, NEW D \in SUBSET (1..(8 * n)), NEW s \in Word, NEW f \in Byte,
         Recent(n, D, s), Traces(D, s)
  PROVE  Traces(D \union PlacesOf(n + 1, f), Absorb(s, f))
<1> DEFINE E == D \union PlacesOf(n + 1, f)
           u == Column(n, D)
<1> SUFFICES ASSUME NEW p \in Nat, E # {}, E \subseteq p..(p + 15), Absorb(s, f) = {}
             PROVE  FALSE
  BY DEF Traces
<1>1. f \subseteq 0..7 /\ f \in Word /\ High(f) \in Word
  BY ByteWord DEF Byte
<1>2. s = High(f)
  <2>1. Xor(s, High(f)) \in Word
    BY <1>1, XorWord
  <2>2. Xor(s, High(f)) = {}
    BY <2>1, NothingVanishes DEF Absorb
  <2> QED
    BY <2>2 DEF Xor
<1>3. D # {}
  <2> SUFFICES ASSUME D = {} PROVE FALSE
    OBVIOUS
  <2>1. s = {}
    BY NoDamage
  <2>2. f = {}
    BY <1>2, <2>1 DEF High
  <2> QED
    BY <2>2 DEF PlacesOf
<1>4. PICK i \in f : 8 * (n + 1) - i \in p..(p + 15)
  <2>1. s # {}
    BY <1>3 DEF Traces
  <2>2. f # {}
    BY <1>2, <2>1 DEF High
  <2> QED
    BY <2>2 DEF PlacesOf
<1>5. \A k \in f : 8 * (n + 1) - k \in p..(p + 15)
  BY DEF PlacesOf
<1>6. 8 * n <= p + 14 /\ p <= 8 * n
  BY <1>1, <1>3, <1>4
<1>7. \A q \in D : 8 * n - q \in 0..(8 * n - p) /\ 8 * n - q <= 14
  BY <1>6
<1>8. u \in Word /\ u \subseteq 0..(8 * n - p) /\ u # {} /\ s = Rounds8(Rounds8(u))
  BY <1>3, <1>6, <1>7 DEF Column, Word, Recent
<1> HIDE DEF u
<1>9. Rounds8(u) = f
  <2>1. Rounds8(u) \in Word
    BY <1>8, RoundsLinear
  <2>2. Rounds8(f) = Rounds8(Rounds8(u))
    BY <1>2, <1>8, RoundsOfByte
  <2>3. Rounds8(Xor(Rounds8(u), f)) = Xor(Rounds8(Rounds8(u)), Rounds8(f))
    BY <1>1, <2>1, RoundsLinear
  <2>4. Rounds8(Xor(Rounds8(u), f)) = {}
    BY <2>2, <2>3 DEF Xor
  <2>5. Xor(Rounds8(u), f) = {}
    BY <1>1, <2>1, <2>4, XorWord, NothingVanishes
  <2> QED
    BY <2>5 DEF Xor
<1>10. \A k \in f : k \in 0..7 /\ k >= 8 * n - 7 - p
  BY <1>1, <1>5
<1>11. PICK j \in 0..7 : j >= 8 * n - 7 - p /\ (j = 0 \/ j = 8 * n - 7 - p)
  <2>1. 8 * n - 7 - p <= 7
    BY <1>6
  <2>2. CASE 8 * n - 7 - p >= 0
    BY <2>1, <2>2
  <2>3. CASE 8 * n - 7 - p < 0
    BY <2>3
  <2> QED
    BY <2>2, <2>3
<1>12. f \subseteq j..7 /\ u \subseteq 0..(7 + j)
  BY <1>8, <1>10, <1>11
<1> QED
  BY <1>8, <1>9, <1>12, Window

\* The line with the places of the bits that it flipped in this frame.
VARIABLE places

BurstInit == LineInit /\ places = {}

BurstNext ==
  \/ \E f \in Byte :
       \/ (\E b \in Data : SendByte(b, f))
             /\ places' = places \union PlacesOf(Len(message) + 1, f)
       \/ SendHigh(f) /\ places' = places \union PlacesOf(Len(message) + 1, f)
       \/ SendLow(f) /\ places' = places \union PlacesOf(Len(message) + 2, f)
  \/ (\E b \in Data : Fill(b)) /\ UNCHANGED places
  \/ Again /\ places' = {}

BurstSpec == BurstInit /\ [][BurstNext]_<<lineVars, places>>

\* The damage to the data, and to the checksum.
Upto(n, P) == {q \in P : q <= 8 * n}
Beyond(n, P) == {q \in P : q > 8 * n}

InData == Upto(Len(message), places)
InChecksum == Beyond(Len(message), places)

BurstInv ==
  /\ places \subseteq 1..(8 * Len(message) + 16)
  /\ part \in {"data", "high"} => InChecksum = {}
  /\ flips > 0 => places # {}
  /\ Recent(Len(message), InData, syndrome)
  /\ Traces(InData, syndrome)
  /\ damage = Column(Len(message) + 2, InChecksum)

\* l2FrameCheck accepts no frame with an intact LEN whose damage is within 16 places,
\* whatever is damaged there, unless it crosses from the data to the checksum.
BurstsAreSeen ==
  Accepted /\ LengthIntact /\ flips > 0 =>
    \A p \in Nat : places \subseteq p..(p + 15) => InData # {} /\ InChecksum # {}

\* The history watches the line and changes nothing.
LEMMA BurstIsLine == BurstSpec => LineSpec
<1>1. BurstInit => LineInit
  BY DEF BurstInit
<1>2. [BurstNext]_<<lineVars, places>> => [LineNext]_lineVars
  <2> SUFFICES ASSUME [BurstNext]_<<lineVars, places>> PROVE [LineNext]_lineVars
    OBVIOUS
  <2>1. CASE BurstNext
    BY <2>1 DEF BurstNext, LineNext
  <2>2. CASE UNCHANGED <<lineVars, places>>
    BY <2>2
  <2> QED
    BY <2>1, <2>2
<1> QED
  BY <1>1, <1>2, PTL DEF BurstSpec, LineSpec

\* No bit was flipped.
LEMMA NothingFlipped ==
  ASSUME NEW n \in Nat, NEW D, D = {}
  PROVE  Recent(n, D, {}) /\ Traces(D, {}) /\ Column(n + 2, D) = {}
<1>1. Round({}) = {}
  BY DEF Round, ShiftLeft
<1>2. Rounds8({}) = {}
  BY <1>1 DEF Rounds8, Rounds4, Rounds2
<1>3. Column(n, D) = {} /\ Column(n + 2, D) = {}
  BY DEF Column
<1> QED
  BY <1>2, <1>3 DEF Recent, Traces

LEMMA BurstInit0 == BurstInit => BurstInv
<1> SUFFICES ASSUME BurstInit PROVE BurstInv
  OBVIOUS
<1>1. /\ places = {} /\ InData = {} /\ InChecksum = {} /\ Len(message) = 0
      /\ syndrome = {} /\ flips = 0 /\ damage = {}
  BY DEF BurstInit, LineInit, InData, InChecksum, Upto, Beyond
<1> QED
  BY <1>1, NothingFlipped DEF BurstInv

\* The places of a byte, of the data or of the checksum.
LEMMA PlacesOfByte ==
  ASSUME NEW n \in Nat, NEW f \in Byte
  PROVE  /\ PlacesOf(n + 1, f) \subseteq (8 * n + 1)..(8 * n + 8)
         /\ f # {} => PlacesOf(n + 1, f) # {}
         /\ Column(n + 2, PlacesOf(n + 1, f)) = High(f)
         /\ PlacesOf(n + 2, f) \subseteq (8 * n + 9)..(8 * n + 16)
         /\ f # {} => PlacesOf(n + 2, f) # {}
         /\ Column(n + 2, PlacesOf(n + 2, f)) = f
<1>1. \A i \in f : /\ i \in 0..7
                   /\ 8 * (n + 1) - i \in (8 * n + 1)..(8 * n + 8)
                   /\ 8 * (n + 2) - (8 * (n + 1) - i) = i + 8
                   /\ 8 * (n + 2) - i \in (8 * n + 9)..(8 * n + 16)
                   /\ 8 * (n + 2) - (8 * (n + 2) - i) = i
  BY DEF Byte
<1> QED
  BY <1>1 DEF PlacesOf, Column, High

\* They are apart.
LEMMA NoneBeyond ==
  ASSUME NEW n \in Nat, NEW P, P \subseteq 1..(8 * n + 16), Beyond(n, P) = {}
  PROVE  P \subseteq 1..(8 * n) /\ Upto(n, P) = P
<1>1. \A q \in P : q \in 1..(8 * n) /\ q <= 8 * n
  BY DEF Beyond
<1> QED
  BY <1>1 DEF Upto

LEMMA PlacesInData ==
  ASSUME NEW n \in Nat, NEW P, NEW Q,
         P \subseteq 1..(8 * n), Q \subseteq (8 * n + 1)..(8 * n + 8)
  PROVE  /\ P \union Q \subseteq 1..(8 * (n + 1))
         /\ Upto(n + 1, P \union Q) = P \union Q
         /\ Beyond(n + 1, P \union Q) = {}
<1>1. \A q \in P \union Q : q \in 1..(8 * (n + 1)) /\ q <= 8 * (n + 1) /\ ~(q > 8 * (n + 1))
  OBVIOUS
<1> QED
  BY <1>1 DEF Upto, Beyond

LEMMA PlacesInChecksum ==
  ASSUME NEW n \in Nat, NEW P, NEW Q,
         P \subseteq 1..(8 * n + 16), Q \subseteq (8 * n + 1)..(8 * n + 16)
  PROVE  /\ P \union Q \subseteq 1..(8 * n + 16)
         /\ Upto(n, P \union Q) = Upto(n, P)
         /\ Beyond(n, P \union Q) = Beyond(n, P) \union Q
<1>1. \A q \in Q : q \in 1..(8 * n + 16) /\ q > 8 * n /\ ~(q <= 8 * n)
  OBVIOUS
<1> QED
  BY <1>1 DEF Upto, Beyond

\* A step flips a bit only if it adds a place.
LEMMA FlipsHavePlaces ==
  ASSUME LineTypeOK, BurstInv, NEW f \in Byte, Flipped(f), NEW P, f # {} => P # {},
         places' = places \union P
  PROVE  flips' > 0 => places' # {}
<1>1. CASE f = {}
  <2>1. flips' = flips
    BY <1>1, FS_EmptySet DEF Flipped, LineTypeOK
  <2> QED
    BY <2>1 DEF BurstInv
<1>2. CASE f # {}
  BY <1>2
<1> QED
  BY <1>1, <1>2

\* Places of the data are followed by the register, those of the checksum by the damage.
LEMMA BurstStep ==
  ASSUME LineTypeOK, ArrivedInv, BurstInv, [BurstNext]_<<lineVars, places>>
  PROVE  BurstInv'
<1> DEFINE n == Len(message)
<1>a. n \in Nat /\ message \in Seq(Data) /\ syndrome \in Word
  BY DEF LineTypeOK
<1>b. /\ InData' = Upto(Len(message'), places')
      /\ InChecksum' = Beyond(Len(message'), places')
  BY DEF InData, InChecksum, Upto, Beyond
<1>1. ASSUME NEW f \in Byte, NEW b \in Data, SendByte(b, f),
             places' = places \union PlacesOf(n + 1, f)
      PROVE  BurstInv'
  <2>1. /\ Len(message') = n + 1 /\ syndrome' = Absorb(syndrome, f) /\ Flipped(f)
        /\ part = "data"
    BY <1>1, <1>a DEF SendByte
  <2>2. /\ PlacesOf(n + 1, f) \subseteq (8 * n + 1)..(8 * n + 8)
        /\ f # {} => PlacesOf(n + 1, f) # {}
    BY <1>a, PlacesOfByte
  <2>3. places \subseteq 1..(8 * n) /\ InData = places
    <3>1. places \subseteq 1..(8 * n + 16) /\ Beyond(n, places) = {}
      BY <2>1 DEF BurstInv, InChecksum
    <3> QED
      BY <1>a, <3>1, NoneBeyond DEF InData
  <2>4. /\ places' \subseteq 1..(8 * (n + 1)) /\ InChecksum' = {}
        /\ InData' = places \union PlacesOf(n + 1, f)
    <3> DEFINE Q == PlacesOf(n + 1, f)
               P == places
    <3>1. /\ P \union Q \subseteq 1..(8 * (n + 1))
          /\ Upto(n + 1, P \union Q) = P \union Q
          /\ Beyond(n + 1, P \union Q) = {}
      <4>1. Q \subseteq (8 * n + 1)..(8 * n + 8) /\ P \subseteq 1..(8 * n)
        BY <2>2, <2>3
      <4> HIDE DEF n, P, Q
      <4> QED
        BY <1>a, <4>1, PlacesInData
    <3> QED
      BY <1>1, <1>b, <2>1, <3>1
  <2>5. Recent(n, places, syndrome) /\ Traces(places, syndrome)
    BY <2>3 DEF BurstInv
  <2>6. /\ Recent(n + 1, places \union PlacesOf(n + 1, f), Absorb(syndrome, f))
        /\ Traces(places \union PlacesOf(n + 1, f), Absorb(syndrome, f))
    <3>1. places \in SUBSET (1..(8 * n))
      BY <2>3
    <3> HIDE DEF n
    <3> QED
      BY <1>a, <2>5, <3>1, RecentOfByte, TracesOfByte
  <2>7. damage' = {} /\ Column(n + 3, {}) = {}
    BY <1>1, DamageOfByte DEF Column
  <2>8. flips' > 0 => places' # {}
    BY <1>1, <2>1, <2>2, FlipsHavePlaces
  <2>9. places' \subseteq 1..(8 * Len(message') + 16)
    BY <1>a, <2>1, <2>4
  <2>10. Recent(Len(message'), InData', syndrome') /\ Traces(InData', syndrome')
    BY <2>1, <2>4, <2>6
  <2>11. damage' = Column(Len(message') + 2, InChecksum')
    BY <2>4, <2>7 DEF Column
  <2> QED
    BY <2>4, <2>8, <2>9, <2>10, <2>11 DEF BurstInv
<1>2. ASSUME NEW f \in Byte, SendHigh(f), places' = places \union PlacesOf(n + 1, f)
      PROVE  BurstInv'
  <2>1. UNCHANGED <<message, syndrome>> /\ Flipped(f) /\ part = "high" /\ part' = "low"
    BY <1>2 DEF SendHigh
  <2>2. /\ PlacesOf(n + 1, f) \subseteq (8 * n + 1)..(8 * n + 8)
        /\ f # {} => PlacesOf(n + 1, f) # {}
        /\ Column(n + 2, PlacesOf(n + 1, f)) = High(f)
    BY <1>a, PlacesOfByte
  <2>3. InChecksum = {} /\ places \subseteq 1..(8 * n + 16)
    BY <2>1 DEF BurstInv
  <2>4. /\ places' \subseteq 1..(8 * n + 16)
        /\ InChecksum' = PlacesOf(n + 1, f)
        /\ InData' = InData
    <3> DEFINE Q == PlacesOf(n + 1, f)
               P == places
    <3>1. /\ P \union Q \subseteq 1..(8 * n + 16)
          /\ Upto(n, P \union Q) = Upto(n, P)
          /\ Beyond(n, P \union Q) = Beyond(n, P) \union Q
      <4>1. Q \subseteq (8 * n + 1)..(8 * n + 16) /\ P \subseteq 1..(8 * n + 16)
        BY <1>a, <2>2, <2>3
      <4> HIDE DEF n, P, Q
      <4> QED
        BY <1>a, <4>1, PlacesInChecksum, Zenon
    <3>2. InData' = Upto(n, P \union Q) /\ InChecksum' = Beyond(n, P \union Q)
      BY <1>2, <1>b, <2>1
    <3>3. InData = Upto(n, P) /\ InChecksum = Beyond(n, P)
      BY DEF InData, InChecksum
    <3> QED
      BY <1>2, <2>3, <3>1, <3>2, <3>3
  <2>5. damage' = High(f)
    BY <1>2, DamageOfHigh
  <2>6. flips' > 0 => places' # {}
    BY <1>2, <2>1, <2>2, FlipsHavePlaces
  <2> QED
    BY <2>1, <2>2, <2>4, <2>5, <2>6 DEF BurstInv
<1>3. ASSUME NEW f \in Byte, SendLow(f), places' = places \union PlacesOf(n + 2, f)
      PROVE  BurstInv'
  <2>1. UNCHANGED <<message, syndrome>> /\ Flipped(f) /\ part' \in {"rest", "done"}
    BY <1>3 DEF SendLow, Behind
  <2>2. /\ PlacesOf(n + 2, f) \subseteq (8 * n + 9)..(8 * n + 16)
        /\ f # {} => PlacesOf(n + 2, f) # {}
        /\ Column(n + 2, PlacesOf(n + 2, f)) = f
    BY <1>a, PlacesOfByte
  <2>3. /\ places' \subseteq 1..(8 * n + 16)
        /\ InChecksum' = InChecksum \union PlacesOf(n + 2, f)
        /\ InData' = InData
    <3> DEFINE Q == PlacesOf(n + 2, f)
               P == places
    <3>1. /\ P \union Q \subseteq 1..(8 * n + 16)
          /\ Upto(n, P \union Q) = Upto(n, P)
          /\ Beyond(n, P \union Q) = Beyond(n, P) \union Q
      <4>1. Q \subseteq (8 * n + 1)..(8 * n + 16) /\ P \subseteq 1..(8 * n + 16)
        BY <1>a, <2>2 DEF BurstInv
      <4> HIDE DEF n, P, Q
      <4> QED
        BY <1>a, <4>1, PlacesInChecksum, Zenon
    <3>2. InData' = Upto(n, P \union Q) /\ InChecksum' = Beyond(n, P \union Q)
      BY <1>3, <1>b, <2>1
    <3>3. InData = Upto(n, P) /\ InChecksum = Beyond(n, P)
      BY DEF InData, InChecksum
    <3> QED
      BY <1>3, <3>1, <3>2, <3>3
  <2>5. damage' = damage \union f
    BY <1>3, DamageOfLow
  <2>6. Column(n + 2, InChecksum') = Column(n + 2, InChecksum) \union f
    BY <2>2, <2>3 DEF Column
  <2>7. flips' > 0 => places' # {}
    BY <1>3, <2>1, <2>2, FlipsHavePlaces
  <2> QED
    BY <2>1, <2>3, <2>5, <2>6, <2>7 DEF BurstInv
<1>4. ASSUME Again, places' = {}
      PROVE  BurstInv'
  <2>1. /\ InData' = {} /\ InChecksum' = {} /\ Len(message') = 0
        /\ syndrome' = {} /\ flips' = 0 /\ damage' = {}
    BY <1>4 DEF Again, InData, InChecksum, Upto, Beyond
  <2> QED
    BY <1>4, <2>1, NothingFlipped DEF BurstInv
<1>5. ASSUME UNCHANGED <<message, syndrome, damage, flips, places>>,
             part' \in {"data", "high"} => part \in {"data", "high"}
      PROVE  BurstInv'
  BY <1>5 DEF BurstInv, InData, InChecksum
<1>6. ASSUME NEW b \in Data, Fill(b), UNCHANGED places
      PROVE  BurstInv'
  BY <1>5, <1>6 DEF Fill, Behind
<1>7. CASE UNCHANGED <<lineVars, places>>
  BY <1>5, <1>7 DEF lineVars
<1> QED
  BY <1>1, <1>2, <1>3, <1>4, <1>6, <1>7 DEF BurstNext

\* Damage within 16 places that leaves LEN intact, however many bits of them, is seen by
\* l2FrameCheck for every LEN and content unless it has a part on either side of the
\* boundary between data and checksum.
THEOREM BurstsSeen == BurstSpec => []BurstsAreSeen
<1>1. LineTypeOK /\ DependsOnDamageOnly /\ BurstInv => BurstsAreSeen
  <2> SUFFICES ASSUME LineTypeOK, DependsOnDamageOnly, BurstInv, Accepted, LengthIntact, flips > 0,
                      NEW p \in Nat, places \subseteq p..(p + 15)
               PROVE  InData # {} /\ InChecksum # {}
    BY DEF BurstsAreSeen
  <2>a. Len(message) \in Nat
    BY DEF LineTypeOK
  <2>1. places # {} /\ places \subseteq InData \union InChecksum
    BY <2>a DEF BurstInv, InData, InChecksum, Upto, Beyond
  <2>2. damage = Swap(syndrome) /\ damage = Column(Len(message) + 2, InChecksum)
    BY AcceptedDamage DEF BurstInv
  <2>3. (syndrome = {}) <=> (InChecksum = {})
    BY <2>2 DEF Swap, Column
  <2>4. InData = {} => syndrome = {}
    BY <2>a, NoDamage DEF BurstInv
  <2>5. InData # {} => syndrome # {}
    <3>1. InData \subseteq p..(p + 15)
      BY DEF InData, Upto
    <3> QED
      BY <3>1 DEF BurstInv, Traces
  <2> QED
    BY <2>1, <2>3, <2>4, <2>5
<1>2. LineTypeOK /\ ArrivedInv /\ BurstInv /\ [BurstNext]_<<lineVars, places>> => BurstInv'
  BY BurstStep
<1>4. BurstSpec => []BurstInv
  BY <1>2, ArrivedInvariant, BurstIsLine, LineTyping, BurstInit0, PTL DEF BurstSpec
<1> QED
  BY <1>1, <1>4, BurstIsLine, LineTyping, Linearity, PTL

\* What lies across the boundary can pass: since the checksum is sent with its bytes
\* swapped, its high byte is next to the data where the low one would have to be. Whatever
\* was sent before, the last two bits of the data and two of the next eight, nine places
\* in all, turn a frame into another one with a right checksum.
THEOREM BoundaryIsOpen ==
  ASSUME NEW r \in Word, NEW b \in Byte
  PROVE  Swap(Absorb(r, Xor(b, {0, 1}))) = Xor(Swap(Absorb(r, b)), High({1, 3}))
<1>1. {0, 1} \in Byte /\ {} \in Word /\ {1, 3} \in Word
  BY DEF Byte, Word
<1>2. Absorb(r, Xor(b, {0, 1})) = Xor(Absorb(r, b), Absorb({}, {0, 1}))
  <2>1. Absorb(Xor(r, {}), Xor(b, {0, 1})) = Xor(Absorb(r, b), Absorb({}, {0, 1}))
    BY <1>1, AbsorbLinear
  <2>2. Xor(r, {}) = r
    BY DEF Xor
  <2> QED
    BY <2>1, <2>2
<1>3. Absorb({}, {0, 1}) = {1, 3}
  <2>1. Xor({}, High({0, 1})) = {8, 9}
    BY DEF Xor, High
  <2>2. /\ Round({8, 9}) = {9, 10} /\ Round({9, 10}) = {10, 11} /\ Round({10, 11}) = {11, 12}
        /\ Round({11, 12}) = {12, 13} /\ Round({12, 13}) = {13, 14}
        /\ Round({13, 14}) = {14, 15}
    BY DEF Round, ShiftLeft
  <2>3. Round({14, 15}) = {0, 2}
    BY DEF Round, ShiftLeft, Xor, Poly
  <2>4. Round({0, 2}) = {1, 3}
    BY DEF Round, ShiftLeft
  <2> QED
    BY <2>1, <2>2, <2>3, <2>4 DEF Absorb, Rounds8, Rounds4, Rounds2
<1>4. Absorb(r, b) \in Word
  BY <1>1, AbsorbLinear
<1>5. Swap(Xor(Absorb(r, b), {1, 3})) = Xor(Swap(Absorb(r, b)), Swap({1, 3}))
  <2> DEFINE a == Absorb(r, b)
  <2>1. a \in Word
    BY <1>4
  <2> HIDE DEF a
  <2>2. \A i, j \in 0..15 : (i + 8) % 16 = (j + 8) % 16 => i = j
    OBVIOUS
  <2>3. Swap(Xor(a, {1, 3})) = Xor(Swap(a), Swap({1, 3}))
    BY <1>1, <2>1, <2>2, SMTT(30) DEF Swap, Xor, Word
  <2> QED
    BY <2>3 DEF a
<1>6. Swap({1, 3}) = High({1, 3})
  BY DEF Swap, High
<1> QED
  BY <1>2, <1>3, <1>5, <1>6

-----------------------------------------------------------------------------
\* The exchange of frames.

\* What the type of the state leaves open: in the loop the chip carries out no
\* more requests than were sent, the first attempt is the caller's request, and
\* nothing but a RESEND is read without one.
LoopInv ==
  /\ l2pc \in {"send", "read"} => req # Resend /\ served <= tries
  /\ l2pc = "send" /\ tries = 0 => cur = req /\ served = 0
  /\ l2pc = "read" => tries > 0
  /\ l2pc = "receive" => req = Resend

ErrorFrames == {GenErr, StatusFrame("CRC_ERR")}

\* The answer to the request of this call, once there is one.
AnswerFrames == IF served > 0 THEN {Frame("REQUEST_OK", 1, req.id)} ELSE {}

CurrentFrames == ErrorFrames \union AnswerFrames

\* Once a request of this call was taken, frames of earlier calls are gone; the
\* one kept for RESEND goes with the first frame that is read.
CurrentInv ==
  req # Resend /\ ~unseen =>
    /\ l2pc = "read" => /\ out \in Seq(CurrentFrames)
                        /\ \/ kept \in Seq(CurrentFrames)
                           \/ out # <<>> /\ Head(out) # GenErr
    /\ l2pc = "send" /\ tries > 0 =>
         out \in Seq(CurrentFrames) /\ kept \in Seq(CurrentFrames)

\* After a request was carried out the chip gives its answer or a general error,
\* and the driver asks for the answer again and sends no request.
ServedFrames == {GenErr} \union AnswerFrames

ServedInv ==
  served > 0 /\ ~misled =>
    /\ served = 1
    /\ l2pc = "read" => /\ out \in Seq(ServedFrames)
                        /\ \/ kept \in Seq(ServedFrames)
                           \/ out # <<>> /\ Head(out) # GenErr
    /\ l2pc = "send" =>
         /\ cur = Resend
         /\ out \in Seq(ServedFrames) /\ kept \in Seq(ServedFrames)

ExchangeInv ==
  TypeOK /\ LoopInv /\ CurrentInv /\ ServedInv /\ AnswerIsForThisRequest

\* The chip answers a request, or refuses it: what it gives is of the set S, and
\* so is what it keeps, at once or after the first frame is read.
LEMMA AnswersIn ==
  ASSUME NEW S, NEW f \in S, f # GenErr, GenErr \in S, Answers(<<f>>) \/ Refuses
  PROVE  /\ out' \in Seq(S)
         /\ kept \in Seq(S) => kept' \in Seq(S)
         /\ kept' \in Seq(S) \/ (out' # <<>> /\ Head(out') # GenErr)
<1>1. <<f>> \in Seq(S) /\ <<GenErr>> \in Seq(S)
  OBVIOUS
<1>2. Head(<<f>>) = f /\ <<f>> # <<>>
  OBVIOUS
<1>3. QED
  BY <1>1, <1>2 DEF Answers, Refuses

\* It reports that the line garbled a frame.
LEMMA GarbledIn ==
  ASSUME NEW S, StatusFrame("CRC_ERR") \in S, TakesGarbled
  PROVE  /\ out' \in Seq(S)
         /\ kept \in Seq(S) => kept' \in Seq(S)
         /\ out' # <<>> /\ Head(out') # GenErr
<1>1. out' = <<StatusFrame("CRC_ERR")>> /\ kept' = kept
  BY DEF TakesGarbled
<1>2. Head(out') = StatusFrame("CRC_ERR") /\ out' # <<>>
  BY <1>1
<1>3. StatusFrame("CRC_ERR") # GenErr
  BY DEF StatusFrame, GenErr
<1>4. QED
  BY <1>1, <1>2, <1>3

\* It gives its last frame again, or misses the request.
LEMMA ResendsIn ==
  ASSUME NEW S, GenErr \in S, out \in Seq(S), kept \in Seq(S), Resends \/ SeesNothing
  PROVE  out' \in Seq(S) /\ kept' \in Seq(S)
<1>1. <<GenErr>> \in Seq(S) /\ kept \o out \in Seq(S)
  BY ConcatProperties
<1>2. QED
  BY <1>1 DEF Resends, SeesNothing, link

\* It gives out its next frame.
LEMMA GivesIn ==
  ASSUME NEW S, out \in Seq(S), Gives
  PROVE  /\ Head(out) \in S
         /\ out' \in Seq(S)
         /\ kept \in Seq(S) \/ Head(out) # GenErr => kept' \in Seq(S)
<1>1. Head(out) \in S /\ Tail(out) \in Seq(S)
  BY HeadTailProperties DEF Gives
<1>2. <<Head(out)>> \in Seq(S)
  BY <1>1
<1>3. QED
  BY <1>1, <1>2 DEF Gives

\* The frames of the chip, by their status.
LEMMA FrameStatus ==
  /\ GenErr.status = "GEN_ERR" /\ StatusFrame("CRC_ERR").status = "CRC_ERR"
  /\ \A data : /\ Frame("REQUEST_OK", 1, data).status = "REQUEST_OK"
               /\ Frame("REQUEST_OK", 1, data).data = data
               /\ Frame("REQUEST_OK", 1, data) # GenErr
BY DEF GenErr, StatusFrame, Frame

\* What the driver takes for an answer is the chip's frame as it was sent; and it
\* takes for a request to repeat itself what says so.
LEMMA FrameChecked ==
  ASSUME NEW f \in CurrentFrames, NEW g \in OnWire(f)
  PROVE  /\ l2FrameCheck(g) = "nil" => g = f /\ f.status = "REQUEST_OK"
         /\ l2FrameCheck(g) = "ErrL2CRCErr" => g.status = "CRC_ERR"
<1>1. PICK data : f \in {GenErr, StatusFrame("CRC_ERR"), Frame("REQUEST_OK", 1, data)}
  BY DEF CurrentFrames, ErrorFrames, AnswerFrames
<1>2. f.status \in {"GEN_ERR", "CRC_ERR", "REQUEST_OK"}
  BY <1>1, FrameStatus
<1>3. g = f \/ g.crcOK = FALSE \/ g.status \in {"CRC_ERR", "GEN_ERR"}
  BY <1>1, ZenonT(30) DEF OnWire, GenErr, StatusFrame, Frame
<1>4. l2FrameCheck(g) = "nil" => g.status \in {"REQUEST_OK", "RESULT_OK"} /\ g.crcOK
  BY DEF l2FrameCheck, StatusError
<1>5. l2FrameCheck(g) = "ErrL2CRCErr" => g.status = "CRC_ERR"
  BY DEF l2FrameCheck, StatusError
<1>6. QED
  BY <1>2, <1>3, <1>4, <1>5

\* Every step keeps the types and what the loop knows.
LEMMA LoopStep ==
  ASSUME TypeOK, LoopInv, [Next]_vars
  PROVE  TypeOK' /\ LoopInv'
<1> USE DEF TypeOK, LoopInv
<1>1. l2TransferRetries \in Nat \ {0} /\ 0 \in 0..l2TransferRetries
  BY L2Assumption
<1>2. CASE Call
  <2>1. /\ tries' = 0 /\ served' = 0
        /\ got' = NoResult /\ cur' = req'
        /\ \/ l2pc' = "send" /\ req' \in Requests
           \/ l2pc' = "receive" /\ req' = Resend
    BY <1>2 DEF Call, SendRecv, Receive
  <2>2. got'.err = "nil" /\ unseen' \in BOOLEAN /\ misled' \in BOOLEAN
    BY <1>2, <2>1 DEF Call, NoResult
  <2>3. req' \in Requests => req' # Resend
    BY L2SystemAssumption
  <2>4. QED
    BY <1>1, <2>1, <2>2, <2>3
<1>3. CASE Done
  BY <1>1, <1>3 DEF Done, L2Done, NoResult, history
<1>4. CASE Stop
  BY <1>4 DEF Stop, Exhausted, TooLong, L2Return, history
<1>5. CASE Write
  <2>1. /\ UNCHANGED <<req, cur>> /\ l2pc = "send" /\ tries < l2TransferRetries
        /\ \/ l2pc' = "read" /\ tries' = tries + 1 /\ tries' > 0 /\ UNCHANGED got
           \/ l2pc' = "returned" /\ tries' = tries /\ got' = [err |-> "ErrL1SPI", data |-> None]
    BY <1>5 DEF Write, Written, WriteFails, Writing, L2Return
  <2>2. served' \in {served, served + 1} /\ unseen' \in BOOLEAN /\ misled' \in BOOLEAN
    BY <1>5 DEF Write, Takes, history
  <2>3. tries' \in 0..l2TransferRetries /\ served' \in 0..l2TransferRetries
    BY <1>1, <2>1, <2>2
  <2>4. QED
    BY <1>1, <2>1, <2>2, <2>3
<1>6. CASE Read
  <2>1. UNCHANGED <<served, unseen, req, tries>>
    BY <1>6 DEF Read, ReadFrame, ReadFails, L2Return, Retry
  <2>2. misled' \in BOOLEAN
    BY <1>6 DEF Read
  <2>3. /\ l2pc = "read" \/ l2pc = "receive"
        /\ \/ l2pc' = "panicked" /\ UNCHANGED <<cur, got>>
           \/ /\ l2pc' = "returned" /\ UNCHANGED cur
              /\ got'.err = "nil" \/ got'.data = None
           \/ l2pc = "read" /\ l2pc' = "send" /\ cur' \in {req, Resend} /\ UNCHANGED got
    BY <1>6 DEF Read, ReadFrame, ReadFails, L2Return, Retry, Reading
  <2>4. l2pc' = "send" => tries' # 0
    BY <2>1, <2>3
  <2>5. QED
    BY <2>1, <2>2, <2>3, <2>4
<1>7. CASE ReadNothing
  BY <1>7 DEF ReadNothing, ReadFails, L2Return, Reading, history
<1>8. CASE ChipRestarts \/ UNCHANGED vars
  BY <1>8 DEF ChipRestarts, vars, l2vars, history
<1>9. QED
  BY <1>2, <1>3, <1>4, <1>5, <1>6, <1>7, <1>8 DEF Next, HostStep

\* The request that is sent, when it is not a RESEND, is the caller's, and its
\* answer is then in the chip's hands.
LEMMA TakesRequest ==
  ASSUME TypeOK, LoopInv, l2pc = "send", cur # Resend, UNCHANGED req,
         Answers(<<Frame("REQUEST_OK", 1, cur.id)>>), served' = served + 1
  PROVE  /\ Frame("REQUEST_OK", 1, cur.id) \in AnswerFrames'
         /\ Frame("REQUEST_OK", 1, cur.id) # GenErr
<1>1. cur = req /\ served' > 0
  BY DEF TypeOK
<1>2. QED
  BY <1>1, FrameStatus DEF AnswerFrames

\* A write puts current frames into the chip's register.
LEMMA WriteCurrent ==
  ASSUME ExchangeInv, Write
  PROVE  CurrentInv' /\ AnswerIsForThisRequest'
<1> USE DEF ExchangeInv
<1>1. /\ UNCHANGED <<req, cur>> /\ l2pc = "send" /\ req # Resend
      /\ \/ l2pc' = "read" /\ Written
         \/ l2pc' = "returned" /\ got'.err = "ErrL1SPI"
  BY DEF Write, Written, WriteFails, Writing, L2Return, LoopInv
<1>2. AnswerIsForThisRequest'
  BY <1>1 DEF AnswerIsForThisRequest, Answered
<1> SUFFICES ASSUME ~unseen', l2pc' = "read"
             PROVE  /\ out' \in Seq(CurrentFrames')
                    /\ \/ kept' \in Seq(CurrentFrames')
                       \/ out' # <<>> /\ Head(out') # GenErr
  BY <1>1, <1>2 DEF CurrentInv
<1>3. ~unseen /\ Takes
  BY <1>1 DEF Write, WriteFails, L2Return
<1>4. GenErr \in CurrentFrames' /\ StatusFrame("CRC_ERR") \in CurrentFrames'
  BY DEF CurrentFrames, ErrorFrames
<1>5. CASE cur = Resend /\ Resends /\ served' = served
  <2>1. tries > 0
    BY <1>1, <1>5 DEF LoopInv, TypeOK
  <2>2. CurrentFrames' = CurrentFrames
    BY <1>1, <1>5 DEF CurrentFrames, AnswerFrames
  <2>3. out \in Seq(CurrentFrames) /\ kept \in Seq(CurrentFrames)
    BY <1>1, <1>3, <2>1 DEF CurrentInv
  <2>4. QED
    BY <1>4, <1>5, <2>2, <2>3, ResendsIn
<1>6. CASE cur # Resend /\ Answers(<<Frame("REQUEST_OK", 1, cur.id)>>) /\ served' = served + 1
  <2> DEFINE f == Frame("REQUEST_OK", 1, cur.id)
  <2>1. f \in CurrentFrames' /\ f # GenErr
    BY <1>1, <1>6, TakesRequest DEF CurrentFrames
  <2>2. Answers(<<f>>)
    BY <1>6
  <2> HIDE DEF f
  <2>3. QED
    BY <1>4, <2>1, <2>2, AnswersIn
<1>7. CASE Refuses
  BY <1>4, <1>7, FrameStatus, AnswersIn
<1>8. CASE TakesGarbled
  BY <1>4, <1>8, GarbledIn
<1>9. QED
  BY <1>3, <1>5, <1>6, <1>7, <1>8 DEF Takes

\* And, once the request was carried out, none that makes the driver send it again,
\* unless the history says so.
LEMMA WriteServed ==
  ASSUME ExchangeInv, Write
  PROVE  ServedInv'
<1> USE DEF ExchangeInv
<1>1. /\ UNCHANGED <<req, cur>> /\ l2pc = "send" /\ req # Resend
      /\ l2pc' = "read" \/ l2pc' = "returned"
  BY DEF Write, Written, WriteFails, Writing, L2Return, LoopInv
<1> SUFFICES ASSUME served' > 0, ~misled'
             PROVE  /\ served' = 1
                    /\ out' \in Seq(ServedFrames')
                    /\ \/ kept' \in Seq(ServedFrames')
                       \/ out' # <<>> /\ Head(out') # GenErr
  BY <1>1 DEF ServedInv
<1>2. ~misled
  BY DEF Write, Takes, history
<1>3. GenErr \in ServedFrames'
  BY DEF ServedFrames
<1>4. CASE served' = served
  <2>1. served = 1 /\ cur = Resend /\ out \in Seq(ServedFrames) /\ kept \in Seq(ServedFrames)
    BY <1>1, <1>2, <1>4 DEF ServedInv
  <2>2. ServedFrames' = ServedFrames
    BY <1>1, <1>4 DEF ServedFrames, AnswerFrames
  <2>3. Resends \/ SeesNothing
    BY <1>4, <2>1 DEF Write, Takes, SeesNothing, history
  <2>4. QED
    BY <1>3, <1>4, <2>1, <2>2, <2>3, ResendsIn
<1>5. CASE cur # Resend /\ Answers(<<Frame("REQUEST_OK", 1, cur.id)>>) /\ served' = served + 1
  <2> DEFINE f == Frame("REQUEST_OK", 1, cur.id)
  <2>1. f \in ServedFrames' /\ f # GenErr
    BY <1>1, <1>5, TakesRequest DEF ServedFrames
  <2>2. Answers(<<f>>)
    BY <1>5
  <2>3. served = 0
    BY <1>1, <1>2, <1>5 DEF ServedInv, TypeOK
  <2> HIDE DEF f
  <2>4. QED
    BY <1>3, <1>5, <2>1, <2>2, <2>3, AnswersIn
<1>6. QED
  BY <1>4, <1>5 DEF Write, Takes, history

\* A frame that is read leads back to the loop only with a status that asks for a
\* repetition, and ends it well only as it was sent.
LEMMA ReadLeads ==
  ASSUME TypeOK, LoopInv, Read
  PROVE  /\ UNCHANGED <<req, tries, served, unseen>> /\ Gives
         /\ \/ l2pc' = "panicked"
            \/ l2pc' = "returned" /\ got'.err # "nil"
            \/ \E g \in OnWire(Head(out)) :
                 /\ misled' = (misled \/ g.status # Head(out).status)
                 /\ \/ /\ l2pc' = "returned" /\ l2FrameCheck(g) = "nil"
                       /\ got' = [err |-> "nil", data |-> g.data]
                    \/ /\ l2pc = "read" /\ l2pc' = "send"
                       /\ cur' = IF l2FrameCheck(g) = "ErrL2GenErr" THEN Resend ELSE req
                       /\ l2FrameCheck(g) \in {"ErrL2CRCErr", "ErrL2GenErr"}
<1>1. UNCHANGED <<served, unseen>> /\ Gives
  BY DEF Read
<1>2. CASE ReadFails("ErrL1SPI")
  BY <1>1, <1>2 DEF ReadFails, L2Return
<1>3. ASSUME NEW g \in OnWire(Head(out)), ReadFrame(g),
             misled' = (misled \/ g.status # Head(out).status)
      PROVE  /\ UNCHANGED <<req, tries>>
             /\ \/ l2pc' = "panicked"
                \/ l2pc' = "returned" /\ got'.err # "nil"
                \/ /\ l2pc' = "returned" /\ l2FrameCheck(g) = "nil"
                   /\ got' = [err |-> "nil", data |-> g.data]
                \/ /\ l2pc = "read" /\ l2pc' = "send"
                   /\ cur' = IF l2FrameCheck(g) = "ErrL2GenErr" THEN Resend ELSE req
                   /\ l2FrameCheck(g) \in {"ErrL2CRCErr", "ErrL2GenErr"}
  BY <1>3 DEF ReadFrame, L2Return, Retry
<1>4. QED
  BY <1>1, <1>2, <1>3 DEF Read

\* A read in the loop takes the next of the current frames.
LEMMA ReadCurrent ==
  ASSUME ExchangeInv, Read
  PROVE  CurrentInv' /\ AnswerIsForThisRequest'
<1> USE DEF ExchangeInv
<1> SUFFICES ASSUME req' # Resend, ~unseen'
             PROVE  /\ l2pc' = "send" /\ tries' > 0 =>
                         out' \in Seq(CurrentFrames') /\ kept' \in Seq(CurrentFrames')
                    /\ l2pc' = "returned" /\ got'.err = "nil" => got'.data = req'.id /\ served' > 0
                    /\ l2pc' # "read"
  BY DEF CurrentInv, AnswerIsForThisRequest, Answered
<1>1. l2pc = "read"
  BY ReadLeads DEF LoopInv, Read, ReadFrame, ReadFails, Reading
<1>2. /\ UNCHANGED <<req, served, unseen>> /\ req # Resend /\ ~unseen
      /\ out \in Seq(CurrentFrames)
      /\ kept \in Seq(CurrentFrames) \/ Head(out) # GenErr
  BY <1>1, ReadLeads DEF CurrentInv
<1>3. CurrentFrames' = CurrentFrames
  BY <1>2 DEF CurrentFrames, AnswerFrames
<1>4. /\ Head(out) \in CurrentFrames
      /\ out' \in Seq(CurrentFrames) /\ kept' \in Seq(CurrentFrames)
  BY <1>2, ReadLeads, GivesIn
<1>5. l2pc' # "read"
  BY <1>1, ReadLeads
<1>6. l2pc' = "returned" /\ got'.err = "nil" => got'.data = req.id /\ served > 0
  <2> SUFFICES ASSUME NEW g \in OnWire(Head(out)), l2FrameCheck(g) = "nil",
                      got' = [err |-> "nil", data |-> g.data]
               PROVE  got'.data = req.id /\ served > 0
    BY ReadLeads
  <2>1. g = Head(out) /\ Head(out).status = "REQUEST_OK"
    BY <1>4, FrameChecked
  <2>2. Head(out) \in AnswerFrames
    BY <1>4, <2>1, FrameStatus DEF CurrentFrames, ErrorFrames
  <2>3. QED
    BY <2>1, <2>2, FrameStatus DEF AnswerFrames
<1>7. QED
  BY <1>2, <1>3, <1>4, <1>5, <1>6

\* After the request was carried out the loop goes on with a RESEND only.
LEMMA ReadServed ==
  ASSUME ExchangeInv, Read
  PROVE  ServedInv'
<1> USE DEF ExchangeInv
<1> SUFFICES ASSUME served' > 0, ~misled'
             PROVE  /\ served' = 1
                    /\ l2pc' # "read"
                    /\ l2pc' = "send" =>
                         /\ cur' = Resend
                         /\ out' \in Seq(ServedFrames') /\ kept' \in Seq(ServedFrames')
  BY DEF ServedInv
<1>1. /\ UNCHANGED <<req, served>> /\ Gives
      /\ l2pc' # "read"
  BY ReadLeads
<1>2. ~misled
  BY ReadLeads DEF Read
<1>3. served > 0
  BY <1>1
<1>4. served = 1
  BY <1>2, <1>3 DEF ServedInv
<1> SUFFICES ASSUME l2pc = "read", NEW g \in OnWire(Head(out)),
                    misled' = (misled \/ g.status # Head(out).status),
                    cur' = (IF l2FrameCheck(g) = "ErrL2GenErr" THEN Resend ELSE req),
                    l2FrameCheck(g) \in {"ErrL2CRCErr", "ErrL2GenErr"}
             PROVE  /\ cur' = Resend
                    /\ out' \in Seq(ServedFrames') /\ kept' \in Seq(ServedFrames')
  BY <1>1, <1>4, ReadLeads
<1>5. out \in Seq(ServedFrames) /\ (kept \in Seq(ServedFrames) \/ Head(out) # GenErr)
  BY <1>2, <1>3 DEF ServedInv
<1>6. ServedFrames' = ServedFrames
  BY <1>1 DEF ServedFrames, AnswerFrames
<1>7. /\ Head(out) \in ServedFrames
      /\ out' \in Seq(ServedFrames) /\ kept' \in Seq(ServedFrames)
  BY <1>1, <1>5, GivesIn
<1>8. g.status = Head(out).status
  BY <1>2
<1>9. g.status # "CRC_ERR"
  BY <1>7, <1>8, FrameStatus DEF ServedFrames, AnswerFrames
<1>10. cur' = Resend
  <2>1. Head(out) \in CurrentFrames
    BY <1>7 DEF ServedFrames, CurrentFrames, ErrorFrames
  <2>2. QED
    BY <1>9, <2>1, FrameChecked
<1>11. QED
  BY <1>6, <1>7, <1>10

\* The other steps.
LEMMA OtherSteps ==
  ASSUME ExchangeInv,
         Call \/ Done \/ Stop \/ ReadNothing \/ ChipRestarts \/ UNCHANGED vars
  PROVE  CurrentInv' /\ ServedInv' /\ AnswerIsForThisRequest'
<1> USE DEF ExchangeInv
<1>1. CASE Call
  BY <1>1 DEF Call, SendRecv, Receive, CurrentInv, ServedInv, AnswerIsForThisRequest, Answered
<1>2. CASE Done
  BY <1>2 DEF Done, L2Done, history, CurrentInv, ServedInv, AnswerIsForThisRequest, Answered
<1>3. CASE Stop \/ ReadNothing
  <2>1. /\ l2pc' = "returned" /\ got'.err # "nil" /\ UNCHANGED <<req, served, misled>>
    BY <1>3 DEF Stop, Exhausted, TooLong, ReadNothing, ReadFails, L2Return, history
  <2>2. QED
    BY <2>1 DEF CurrentInv, ServedInv, AnswerIsForThisRequest, Answered
<1>4. CASE ChipRestarts
  <2>1. /\ UNCHANGED <<l2pc, req, cur, tries, got, served, unseen, misled>>
        /\ out' = <<>> /\ kept' = <<>>
    BY <1>4 DEF ChipRestarts, Resets, l2vars, history
  <2>2. out' \in Seq(CurrentFrames') /\ kept' \in Seq(CurrentFrames')
        /\ out' \in Seq(ServedFrames') /\ kept' \in Seq(ServedFrames')
    BY <2>1
  <2>3. QED
    BY <2>1, <2>2 DEF CurrentInv, ServedInv, AnswerIsForThisRequest, Answered
<1>5. CASE UNCHANGED vars
  BY <1>5 DEF vars, l2vars, link, history, CurrentInv, ServedInv, AnswerIsForThisRequest,
       Answered, CurrentFrames, ServedFrames, AnswerFrames
<1>6. QED
  BY <1>1, <1>2, <1>3, <1>4, <1>5

\* The invariant holds.
LEMMA ExchangeInvariant == Spec => []ExchangeInv
<1>1. Init => ExchangeInv
  <2> SUFFICES ASSUME Init PROVE ExchangeInv
    OBVIOUS
  <2>1. /\ l2pc = "idle" /\ req = Resend /\ cur = Resend /\ tries = 0
        /\ got.err = "nil" /\ served = 0
    BY DEF Init, L2Init, NoResult
  <2>2. unseen \in BOOLEAN /\ misled \in BOOLEAN
    BY DEF Init
  <2>3. 0 \in 0..l2TransferRetries
    BY L2Assumption
  <2>4. TypeOK
    BY <2>1, <2>2, <2>3 DEF TypeOK
  <2>5. QED
    BY <2>1, <2>4 DEF ExchangeInv, LoopInv, CurrentInv, ServedInv, AnswerIsForThisRequest, Answered
<1>2. ExchangeInv /\ [Next]_vars => ExchangeInv'
  <2> SUFFICES ASSUME ExchangeInv, [Next]_vars PROVE ExchangeInv'
    OBVIOUS
  <2>1. TypeOK' /\ LoopInv'
    BY LoopStep DEF ExchangeInv
  <2>2. QED
    BY <2>1, WriteCurrent, WriteServed, ReadCurrent, ReadServed, OtherSteps
       DEF Next, HostStep, ExchangeInv
<1>3. QED
  BY <1>1, <1>2, PTL DEF Spec

\* The state of L2 keeps its type, for every number of attempts: at most
\* l2TransferRetries frames are sent and carried out in one call.
THEOREM ExchangeTyping == Spec => []TypeOK
<1>1. ExchangeInv => TypeOK
  BY DEF ExchangeInv
<1>2. QED
  BY <1>1, ExchangeInvariant, PTL

\* Data that l2SendRecv returns is the answer to its own request, through all
\* retries, repetitions, garbled frames and restarts of the chip, as long as no
\* write of the call was lost.
THEOREM OwnAnswer == Spec => []AnswerIsForThisRequest
<1>1. ExchangeInv => AnswerIsForThisRequest
  BY DEF ExchangeInv
<1>2. QED
  BY <1>1, ExchangeInvariant, PTL

\* A request is carried out twice only in a call in which a status was changed on
\* the line, or a RESEND was garbled.
THEOREM NoNeedlessRepetition == Spec => []RepeatedOnlyWhenMisled
<1>1. ExchangeInv => RepeatedOnlyWhenMisled
  BY DEF ExchangeInv, ServedInv, TypeOK, RepeatedOnlyWhenMisled
<1>2. QED
  BY <1>1, ExchangeInvariant, PTL

-----------------------------------------------------------------------------
\* How long a call takes.

Running == l2pc \in {"send", "read", "receive"}

\* Calls of L1 and returns that are left: two for each attempt to come, the read of this
\* one, and the end of the loop.
StepsLeft ==
  CASE l2pc = "send" -> 2 * (l2TransferRetries - tries) + 1
    [] l2pc = "read" -> 2 * (l2TransferRetries - tries) + 2
    [] l2pc = "receive" -> 1
    [] OTHER -> 0

\* A call of l2SendRecv has at most two steps for each attempt and one more, and each
\* step it takes uses one up.
TransferIsBounded ==
  [][IF Running THEN StepsLeft' \in 0..(StepsLeft - 1)
     ELSE StepsLeft' \in 0..(2 * l2TransferRetries + 1)]_l2vars

LEMMA LeftStep ==
  ASSUME TypeOK, [Next]_vars, l2vars' # l2vars
  PROVE  IF Running THEN StepsLeft' \in 0..(StepsLeft - 1)
         ELSE StepsLeft' \in 0..(2 * l2TransferRetries + 1)
<1> DEFINE R == l2TransferRetries
<1>1. R \in Nat /\ R > 0 /\ tries \in Nat /\ tries <= R
  BY L2Assumption DEF TypeOK
<1> HIDE DEF R
<1>2. /\ l2pc = "send" => StepsLeft = 2 * (R - tries) + 1
      /\ l2pc = "read" => StepsLeft = 2 * (R - tries) + 2
      /\ l2pc = "receive" => StepsLeft = 1
  BY DEF StepsLeft, R
<1>3. /\ l2pc' = "send" => StepsLeft' = 2 * (R - tries') + 1
      /\ l2pc' = "read" => StepsLeft' = 2 * (R - tries') + 2
      /\ l2pc' = "receive" => StepsLeft' = 1
      /\ l2pc' \in {"idle", "returned", "panicked"} => StepsLeft' = 0
  BY DEF StepsLeft, R
<1>4. CASE Call
  <2>1. l2pc = "idle" /\ l2pc' \in {"send", "receive"} /\ tries' = 0
    BY <1>4 DEF Call, SendRecv, Receive
  <2>2. StepsLeft' \in 0..(2 * R + 1)
    BY <1>1, <1>3, <2>1
  <2> QED
    BY <2>1, <2>2 DEF Running, R
<1>5. CASE Done
  <2>1. l2pc \in {"returned", "panicked"} /\ l2pc' = "idle"
    BY <1>5 DEF Done, L2Done
  <2>2. StepsLeft' \in 0..(2 * R + 1)
    BY <1>1, <1>3, <2>1
  <2> QED
    BY <2>1, <2>2 DEF Running, R
<1>6. ASSUME Running, l2pc' \in {"returned", "panicked"}
      PROVE  StepsLeft' \in 0..(StepsLeft - 1)
  BY <1>1, <1>2, <1>3, <1>6 DEF Running
<1>7. CASE HostStep
  <2>1. Running
    BY <1>7 DEF HostStep, Stop, Exhausted, TooLong, Write, Written, WriteFails, Writing, Read,
                ReadNothing, ReadFrame, ReadFails, Reading, Running
  <2>2. \/ l2pc' \in {"returned", "panicked"}
        \/ l2pc = "send" /\ l2pc' = "read" /\ tries < R /\ tries' = tries + 1
        \/ l2pc = "read" /\ l2pc' = "send" /\ tries' = tries
    BY <1>7 DEF HostStep, Stop, Exhausted, TooLong, Write, Written, WriteFails, Writing, Read,
                ReadNothing, ReadFrame, ReadFails, Retry, L2Return, R
  <2>3. ASSUME l2pc' \in {"returned", "panicked"}
        PROVE  StepsLeft' \in 0..(StepsLeft - 1)
    BY <1>6, <2>1, <2>3
  <2>4. ASSUME l2pc = "send", l2pc' = "read", tries < R, tries' = tries + 1
        PROVE  StepsLeft' \in 0..(StepsLeft - 1)
    <3>1. StepsLeft = 2 * (R - tries) + 1 /\ StepsLeft' = 2 * (R - (tries + 1)) + 2
      BY <1>2, <1>3, <2>4
    <3> QED
      BY <1>1, <2>4, <3>1
  <2>5. ASSUME l2pc = "read", l2pc' = "send", tries' = tries
        PROVE  StepsLeft' \in 0..(StepsLeft - 1)
    <3>1. StepsLeft = 2 * (R - tries) + 2 /\ StepsLeft' = 2 * (R - tries) + 1
      BY <1>2, <1>3, <2>5
    <3> QED
      BY <1>1, <3>1
  <2> QED
    BY <2>1, <2>2, <2>3, <2>4, <2>5
<1>8. CASE ChipRestarts
  BY <1>8 DEF ChipRestarts
<1> QED
  BY <1>4, <1>5, <1>7, <1>8 DEF Next, vars

\* No call of l2SendRecv or l2Receive takes more steps than that, whatever the line, the
\* chip and L1 do.
THEOREM BoundedTransfers == Spec => TransferIsBounded
<1>1. ASSUME TypeOK, [Next]_vars
      PROVE  [IF Running THEN StepsLeft' \in 0..(StepsLeft - 1)
              ELSE StepsLeft' \in 0..(2 * l2TransferRetries + 1)]_l2vars
  BY <1>1, LeftStep
<1> QED
  BY <1>1, ExchangeTyping, PTL DEF Spec, TransferIsBounded
=============================================================================
