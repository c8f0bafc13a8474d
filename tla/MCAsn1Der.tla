----------------------------- MODULE MCAsn1Der -----------------------------
(***************************************************************************)
(* The DER reader over two sets of inputs, one input in each initial       *)
(* state: every short string of bytes, and every small certificate of      *)
(* radix 16, damaged or not, with containers in containers.                *)
(***************************************************************************)
EXTENDS Asn1Der, TLC

CONSTANTS
  Inputs,  \* kinds of inputs: "certificate", "string"
  MaxLen   \* bound of the model: longest string of bytes

VARIABLES der, result

derVars == <<der, result>>

Header(tag, n) ==
  {<<tag, n>> : m \in {k \in {n} : k < LongForm}}
  \union {<<tag, LongForm + 1, n>> : m \in {k \in {n} : k < Radix}}
  \union {<<tag, LongForm + 2, n \div Radix, n % Radix>>}

\* Elements without others in them: a number, BIT STRINGs of no, one and two
\* bytes, and one that is cut off.
Leaves == {<<2, 1, 9>>, <<BIT_STRING, 0>>, <<BIT_STRING, 1, 5>>, <<BIT_STRING, 2, 0, 7>>,
           <<BIT_STRING, 3, 0>>}

Wrapped(tag, contents) == UNION {{h \o c : h \in Header(tag, Len(c))} : c \in contents}

Pairs(S, T) == S \union {s \o t : s \in S, t \in T}

Inner == Wrapped(SEQUENCE, Leaves) \union Wrapped(SET, Leaves \union {<<>>})
Contents == Pairs(Pairs(Leaves \union Inner, Leaves \union Inner), Leaves)

Strings == UNION {[1..n -> 0..(Radix - 1)] : n \in 0..MaxLen}

DerInit ==
  /\ \/ "certificate" \in Inputs /\ der \in Wrapped(SEQUENCE, Contents)
     \/ "string" \in Inputs /\ der \in Strings
  /\ result = Error

DerNext ==
  /\ result' = ExtractSubjectPublicKey(der)
  /\ UNCHANGED der

DerSpec == DerInit /\ [][DerNext]_derVars

-----------------------------------------------------------------------------

\* Where no length on the way has as many octets as an int, the recursive search,
\* with errors inside of containers forgotten, returns the content of the first
\* BIT STRING that has one, in the order of the bytes and whatever the nesting; it
\* never panics, and never returns bytes of anything else.
FindsFirstWithContent ==
  LengthsFit(der) => ExtractSubjectPublicKey(der) = FirstWithContent(der)

\* "total includes the tag and length bytes themselves" (asn1der.go:73).
TotalCoversHeader ==
  parseTLV(der).ok => parseTLV(der).total >= HeaderLen(der)
=============================================================================
