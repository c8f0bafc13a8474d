------------------------------ MODULE Asn1Der ------------------------------
(***************************************************************************)
(* The DER reader, tropic01/internal/asn1der/asn1der.go, as functions on   *)
(* sequences of bytes.  The radix of a byte and the width of an int are    *)
(* parameters; the high bit of a length byte and the bits below it are     *)
(* what they are with 256.  A slice with its end before its start is the   *)
(* result "panic".                                                         *)
(***************************************************************************)
EXTENDS Integers, Sequences, FiniteSetsExt

CONSTANTS
  Radix,      \* values of a byte, 256 in the source
  IntOctets,  \* bytes of an int, 8 in the source
  SEQUENCE, SET, BIT_STRING  \* tags: 0x30, 0x31, 0x03

ASSUME Asn1DerAssumption ==
  /\ Radix \in Nat /\ Radix > 2 /\ Radix % 2 = 0
  /\ IntOctets \in Nat \ {0}
  /\ {SEQUENCE, SET, BIT_STRING} \subseteq 0..(Radix - 1)
  /\ BIT_STRING \notin {SEQUENCE, SET}

LongForm == Radix \div 2

\* Values of so many bytes.
Powers == LET power[k \in 0..IntOctets] == IF k = 0 THEN 1 ELSE power[k - 1] * Radix
          IN  power
IntValues == Powers[IntOctets]

\* Arithmetic of a signed int.
AsInt(n) ==
  LET m == n % IntValues
  IN  IF 2 * m >= IntValues THEN m - IntValues ELSE m

IsLong(data) == data[2] >= LongForm
Octets(data) == data[2] % LongForm
HeaderLen(data) == IF IsLong(data) THEN 2 + Octets(data) ELSE 2

\* valLen of the long form, octet by octet.
ValLens(data) ==
  LET len[k \in 0..Octets(data)] == IF k = 0 THEN 0 ELSE AsInt(len[k - 1] * Radix + data[2 + k])
  IN  len
ValLen(data) == ValLens(data)[Octets(data)]

Truncated == [ok |-> FALSE, total |-> 0]
Within(data, total) == IF total > Len(data) THEN Truncated ELSE [ok |-> TRUE, total |-> total]

\* The length of the first TLV in data, or an error.
parseTLV(data) ==
  IF Len(data) < 2 THEN Truncated
  ELSE IF ~IsLong(data) THEN Within(data, 2 + data[2])
  ELSE IF Octets(data) = 0 \/ 2 + Octets(data) > Len(data) THEN Truncated
  ELSE Within(data, AsInt(2 + Octets(data) + ValLen(data)))

Error == [kind |-> "error", bytes |-> <<>>]
Panic == [kind |-> "panic", bytes |-> <<>>]
Bytes(s) == [kind |-> "bytes", bytes |-> s]

\* data[headerLen:total]
tlvContent(data) ==
  LET tlv == parseTLV(data)
  IN  IF ~tlv.ok THEN Error
      ELSE IF tlv.total < HeaderLen(data) THEN Panic
      ELSE Bytes(SubSeq(data, HeaderLen(data) + 1, tlv.total))

\* A search that does not look into a SET.
DescendsSequence(tag) == tag = SEQUENCE

Descends(tag) == tag \in {SEQUENCE, SET}

\* The loop of findBitString is the second recursive use: an error in a container
\* is forgotten, and the search goes on behind it.
findBitString[data \in Seq(0..(Radix - 1))] ==
  IF Len(data) < 2 THEN Error
  ELSE LET content == tlvContent(data)
       IN  IF content.kind # "bytes" THEN content
           ELSE IF data[1] = BIT_STRING
                THEN IF Len(content.bytes) < 2 THEN Error ELSE Bytes(Tail(content.bytes))
                ELSE LET inner == IF Descends(data[1]) THEN findBitString[content.bytes] ELSE Error
                     IN  IF inner.kind # "error" THEN inner
                         ELSE findBitString[SubSeq(data, parseTLV(data).total + 1, Len(data))]

ExtractSubjectPublicKey(der) ==
  IF Len(der) < 2 \/ der[1] # SEQUENCE THEN Error
  ELSE LET content == tlvContent(der)
       IN  IF content.kind # "bytes" THEN content ELSE findBitString[content.bytes]

-----------------------------------------------------------------------------
\* The same by positions, with lengths of any size: a place is where an element
\* begins, and where the one around it ends.

OctetsAt(d, p) == d[p + 1] % LongForm

TrueLengths(d, p) ==
  LET len[k \in 0..OctetsAt(d, p)] == IF k = 0 THEN 0 ELSE len[k - 1] * Radix + d[p + 1 + k]
  IN  len
TrueLength(d, p) ==
  IF d[p + 1] < LongForm THEN d[p + 1] ELSE TrueLengths(d, p)[OctetsAt(d, p)]

ContentAt(d, p) == p + 2 + (IF d[p + 1] < LongForm THEN 0 ELSE OctetsAt(d, p))
EndAt(d, p) == ContentAt(d, p) + TrueLength(d, p)

\* A complete element between p and the end of its surroundings.
IsElement(d, p, end) ==
  /\ p + 1 < end
  /\ d[p + 1] # LongForm
  /\ ContentAt(d, p) <= end
  /\ EndAt(d, p) <= end

\* Where an element is looked for after these places: behind every element but
\* a BIT STRING, and at the beginning of a container.
PlacesAfter(d, places) ==
  LET elements == {pl \in places : IsElement(d, pl[1], pl[2])}
  IN  {<<EndAt(d, pl[1]), pl[2]>> : pl \in {e \in elements : d[e[1]] # BIT_STRING}}
      \union {<<ContentAt(d, pl[1]), EndAt(d, pl[1])>> :
                pl \in {e \in elements : d[e[1]] \in {SEQUENCE, SET}}}

\* The places that are reached from the content of the certificate.  Each step
\* goes on by a byte at least.
Reached(d) ==
  LET reached[k \in 0..Len(d)] ==
        IF k = 0 THEN {<<ContentAt(d, 1), EndAt(d, 1)>>}
        ELSE LET before == reached[k - 1] IN before \union PlacesAfter(d, before)
  IN  reached
Places(d) == Reached(d)[Len(d)]

BitStrings(d) == {pl \in Places(d) : IsElement(d, pl[1], pl[2]) /\ d[pl[1]] = BIT_STRING}

\* The earliest of the given BIT STRINGs without its first byte.
Earliest(d, strings) ==
  IF strings = {} THEN Error
  ELSE LET p == Min({pl[1] : pl \in strings})
       IN  IF TrueLength(d, p) < 2 THEN Error
           ELSE Bytes(SubSeq(d, ContentAt(d, p) + 1, EndAt(d, p) - 1))

IsCertificate(d) == Len(d) >= 2 /\ d[1] = SEQUENCE /\ IsElement(d, 1, Len(d) + 1)

\* A length that is read on the way has fewer octets than an int.
LengthFits(d, p) == d[p + 1] < LongForm \/ OctetsAt(d, p) < IntOctets
LengthsFit(d) ==
  /\ Len(d) >= 2 => LengthFits(d, 1)
  /\ IsCertificate(d) => \A pl \in Places(d) : pl[1] + 1 < pl[2] => LengthFits(d, pl[1])

\* The first BIT STRING that has a content.
FirstWithContent(d) ==
  IF ~IsCertificate(d) THEN Error
  ELSE Earliest(d, {pl \in BitStrings(d) : TrueLength(d, pl[1]) >= 2})
=============================================================================
