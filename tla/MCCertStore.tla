---------------------------- MODULE MCCertStore ----------------------------
(***************************************************************************)
(* Stores of radix 16.  A certificate has the shape of the chip's: a       *)
(* SEQUENCE with a length of two bytes, in it another one that ends with   *)
(* the public key, and a signature.  The signature is of one of two        *)
(* lengths, with one of which the certificate is 32 bytes long and the     *)
(* header of the store looks like the table that extractDERCerts tries     *)
(* first.                                                                  *)
(***************************************************************************)
EXTENDS CertStore, TLC

Filled(n, b) == [k \in 1..n |-> b]
BitString(n, b) == <<BIT_STRING, n + 1, 0>> \o Filled(n, b)

KeyInfo(k) == <<SEQUENCE, 7, 5, 0>> \o BitString(2, k)
ToBeSigned(k) == <<SEQUENCE, LONG2, 1, 0>> \o <<2, 5>> \o Filled(5, 9) \o KeyInfo(k)
Signed(k, n) ==
  LET content == ToBeSigned(k) \o BitString(n, 11)
  IN  <<SEQUENCE, LONG2, Len(content) \div Radix, Len(content) % Radix>> \o content

Lengths(cs) == [j \in 1..8 |-> LET l == Len(cs[(j + 1) \div 2]) IN IF j % 2 = 1 THEN l \div Radix ELSE l % Radix]

Padded(data, b) == data \o Filled(Blocks * BlockLen - Len(data), b)

Store(n, b) ==
  LET cs == [k \in 1..4 |-> Signed(k, n[k])]
  IN  Padded(<<1, 4>> \o Lengths(cs) \o cs[1] \o cs[2] \o cs[3] \o cs[4], b)

Intact == {Store(n, b) : n \in [1..4 -> {1, 5}], b \in {0, 15}}

\* One byte of the headers at the beginning is another one.
Damaged ==
  {[Store([k \in 1..4 |-> n], 0) EXCEPT ![at] = b] :
     n \in {1, 5}, at \in 1..14, b \in {0, 1, SEQUENCE, LONG2, 15}}

\* Stores that begin with a table of places and lengths.
Tables ==
  {Padded(<<0, 0, 0, 0, 0, 0, n, 0, (4 * n + 8) % Radix, (4 * n + 8) \div Radix, l, 0, f, 0, 3, 0>>,
          SEQUENCE) :
     n \in 1..2, l \in {0, 5}, f \in {2, 15}}

\* Less than a header.
Short == {<<>>, <<1, 4, 0>>, <<1, 4>> \o Filled(12, 0)}

MCStores == Intact \union Damaged \union Tables \union Short
=============================================================================
