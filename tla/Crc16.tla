------------------------------- MODULE Crc16 -------------------------------
(***************************************************************************)
(* The checksum of frames, tropic01/crc16.go (and its copy in              *)
(* hal/sim/sim.go), at both ends of a line that flips bits.  The frame is  *)
(* a response: STATUS, LEN, LEN bytes of data and the checksum of all of   *)
(* them.  l1Read takes the whole of l2buf, so that bytes of no meaning     *)
(* follow the frame, and l2FrameCheck of tropic01/l2.go looks for the      *)
(* checksum where the LEN that arrived says it is.  A word is the set of   *)
(* its bits that are one, so that the exclusive or is the symmetric        *)
(* difference.                                                             *)
(***************************************************************************)
EXTENDS Integers, FiniteSets, Sequences

CONSTANTS
  Data,     \* the bytes that a frame may carry, as sets of bits
  MaxData,  \* l2MaxDataSize: what l2buf has room for besides five other bytes
  MaxFlips  \* bound of the model: bits flipped in a frame

ASSUME Crc16Assumption ==
  /\ Data \subseteq SUBSET (0..7)
  /\ MaxData \in 0..255
  /\ MaxFlips \in Nat

VARIABLES
  part,     \* the part of the frame that is sent next
  message,  \* the bytes under the checksum sent so far, as they were before the line
  tx,       \* crc in the sender's crc16
  arrived,  \* d.l2buf from its second byte on, as far as it arrived
  rx,       \* crc in the receiver's, before and after each byte of these
  syndrome, \* history: the checksum of the flipped bits of the message alone
  damage,   \* history: the flipped bits of the checksum
  flips     \* history: bits of the frame flipped so far

lineVars == <<part, message, tx, arrived, rx, syndrome, damage, flips>>

Word == SUBSET (0..15)
Byte == SUBSET (0..7)

Xor(a, b) == (a \ b) \union (b \ a)

\* The polynomials 0x8005 and, with a bit lost, 0x8001.
PolyShort == {0, 15}
Poly == {0, 2, 15}

\* crc << 1 in 16 bits.
ShiftLeft(r) == {b + 1 : b \in r \ {15}}

\* One round of the inner loop.
Round(r) == IF 15 \in r THEN Xor(ShiftLeft(r), Poly) ELSE ShiftLeft(r)

Rounds2(r) == Round(Round(r))
Rounds4(r) == Rounds2(Rounds2(r))
Rounds8(r) == Rounds4(Rounds4(r))

\* uint16(b) << 8
High(b) == {i + 8 : i \in b}

\* One iteration of the outer loop.
Absorb(r, b) == Rounds8(Xor(r, High(b)))

\* crc<<8 | crc>>8
Swap(r) == {(i + 8) % 16 : i \in r}

\* The high byte and the low byte of a word.
HighByte(r) == {i - 8 : i \in r \ (0..7)}
LowByte(r) == r \intersect (0..7)

\* uint16(hi)<<8 | uint16(lo)
WordOf(hi, lo) == High(hi) \union lo

\* int(b)
Value(b) ==
  LET Bit(i, weight) == IF i \in b THEN weight ELSE 0
  IN  Bit(0, 1) + Bit(1, 2) + Bit(2, 4) + Bit(3, 8)
        + Bit(4, 16) + Bit(5, 32) + Bit(6, 64) + Bit(7, 128)

\* l2StatusRequestOK and l2StatusResultOK
OKStatus == {{0}, {1}}

\* The message is complete: STATUS, LEN and as many bytes as LEN says.
Complete(m) == Len(m) >= 2 /\ Len(m) = Value(m[2]) + 2

\* The whole of l2buf has come, or more does behind the frame.
Behind(buffer) == IF Len(buffer) >= MaxData + 4 THEN "done" ELSE "rest"

\* Bytes have 8 bits, words 16.
LineTypeOK ==
  /\ part \in {"data", "high", "low", "rest", "done"}
  /\ message \in Seq(Data)
  /\ tx \in Word
  /\ arrived \in Seq(Byte)
  /\ rx \in Seq(Word) /\ Len(rx) = Len(arrived) + 1
  /\ syndrome \in Word
  /\ damage \in Word
  /\ flips \in 0..MaxFlips

LineInit ==
  /\ part = "data"
  /\ message = <<>> /\ arrived = <<>>
  /\ tx = {} /\ rx = <<{}>>
  /\ syndrome = {} /\ damage = {}
  /\ flips = 0

-----------------------------------------------------------------------------

Flipped(f) ==
  /\ flips' = flips + Cardinality(f)
  /\ flips' <= MaxFlips

\* A byte comes into l2buf, and into the loop of crc16 if LEN reaches as far.
Arrives(b) ==
  /\ arrived' = Append(arrived, b)
  /\ rx' = Append(rx, Absorb(rx[Len(rx)], b))

\* A byte under the checksum: STATUS, LEN or data.
SendByte(b, f) ==
  /\ part = "data"
  /\ Len(message) = 1 => Value(b) <= MaxData
  /\ message' = Append(message, b)
  /\ Flipped(f)
  /\ tx' = Absorb(tx, b)
  /\ Arrives(Xor(b, f))
  /\ syndrome' = Absorb(syndrome, f)
  /\ part' = IF Complete(message') THEN "high" ELSE "data"
  /\ UNCHANGED damage

\* The high byte of the swapped checksum goes first.
SendHigh(f) ==
  /\ part = "high"
  /\ part' = "low"
  /\ Flipped(f)
  /\ Arrives(Xor(HighByte(Swap(tx)), f))
  /\ damage' = High(f)
  /\ UNCHANGED <<message, tx, syndrome>>

SendLow(f) ==
  /\ part = "low"
  /\ Flipped(f)
  /\ Arrives(Xor(LowByte(Swap(tx)), f))
  /\ part' = Behind(arrived')
  /\ damage' = damage \union f
  /\ UNCHANGED <<message, tx, syndrome>>

\* Behind the frame the chip clocks out what it likes, until l2buf is full.
Fill(b) ==
  /\ part = "rest"
  /\ Arrives(b)
  /\ part' = Behind(arrived')
  /\ UNCHANGED <<message, tx, syndrome, damage, flips>>

\* The next frame.
Again ==
  /\ part = "done"
  /\ part' = "data"
  /\ message' = <<>> /\ arrived' = <<>>
  /\ tx' = {} /\ rx' = <<{}>>
  /\ syndrome' = {} /\ damage' = {}
  /\ flips' = 0

LineNext ==
  \/ \E f \in Byte :
       \/ \E b \in Data : SendByte(b, f)
       \/ SendHigh(f)
       \/ SendLow(f)
  \/ \E b \in Data : Fill(b)
  \/ Again

LineSpec == LineInit /\ [][LineNext]_lineVars

-----------------------------------------------------------------------------

\* frame[2] as an int
Length == Value(arrived[2])

\* l2FrameCheck returns nil: STATUS is one of the two under which it looks at the
\* checksum, and the word behind as many bytes as LEN says, the LEN that arrived, is
\* the checksum of these bytes.  A larger LEN is an index outside of l2buf.
Accepted ==
  /\ part = "done"
  /\ arrived[1] \in OKStatus
  /\ Length <= MaxData
  /\ WordOf(arrived[Length + 3], arrived[Length + 4]) = Swap(rx[Length + 3])

\* No bit of LEN was flipped.
LengthIntact == arrived[2] = message[2]

\* The message as a polynomial times x^16: the set of its exponents.
Polynomial(m) == UNION {{8 * (Len(m) - i) + b + 16 : b \in m[i]} : i \in DOMAIN m}

\* The exponent e is taken out by a multiple of x^16 + x^15 + x^2 + 1.
Subtract(rest, e) == IF e \in rest THEN Xor(rest, {e, e - 1, e - 14, e - 16}) ELSE rest

\* What is left of a message in its division by that polynomial, one subtraction for
\* each exponent from the highest to 16.
Division(m) ==
  LET divided[k \in 0..(8 * Len(m))] ==
        IF k = 0 THEN Polynomial(m) ELSE Subtract(divided[k - 1], 8 * Len(m) + 16 - k)
  IN  divided

Remainder(m) == Division(m)[8 * Len(m)]

\* The loops of crc16 compute the remainder of the division by the polynomial
\* that the comment above the function names.
IsRemainder == tx = Remainder(message)

\* As long as LEN is intact, the checksum fits the frame just when it is damaged as the
\* frame is: whether damage is seen depends on where it is and not on what is sent.
DependsOnDamageOnly ==
  part = "done" /\ LengthIntact =>
    (WordOf(arrived[Length + 3], arrived[Length + 4]) = Swap(rx[Length + 3])
       <=> damage = Swap(syndrome))

\* A frame whose LEN is intact and that has one, two, three or any odd number of
\* flipped bits is refused, the swapped bytes of the checksum among them.  A flipped LEN
\* makes l2FrameCheck read another word as the checksum of other bytes, and then what
\* it says depends on the data: a single flip may pass.
FlipsAreSeen == Accepted /\ LengthIntact /\ flips > 0 => flips >= 4 /\ flips % 2 = 0
=============================================================================
