------------------------------ MODULE IVCounter ------------------------------
(***************************************************************************)
(* The nonce counter of tropic01/l3.go: l3IncrementIV adds one to the four *)
(* bytes iv[0:4], least significant byte first, by carrying from byte to   *)
(* byte until one of them does not become zero.  The radix of a byte is a  *)
(* parameter, so that TLC can go through every counter; it is 256 in Go.   *)
(***************************************************************************)
EXTENDS Naturals

CONSTANT Radix

ASSUME RadixAssumption == Radix \in Nat /\ Radix > 1

VARIABLE iv    \* the bytes iv[0:4] of the nonce

Byte == 0..(Radix - 1)
Index == 0..3

\* A carry that stops one byte too late.
CarriesAlways(b, i) == \A j \in 0..(i - 1) : j > 0 => b[j] = Radix - 1

\* The loop reaches byte i when every byte before it became zero.
Carries(b, i) == \A j \in 0..(i - 1) : b[j] = Radix - 1

\* iv[i]++ on a byte.
Bumped(b) == IF b = Radix - 1 THEN 0 ELSE b + 1

l3IncrementIV(b) == [i \in Index |-> IF Carries(b, i) THEN Bumped(b[i]) ELSE b[i]]

\* The number that the bytes stand for.
Value(b) == b[0] + Radix * (b[1] + Radix * (b[2] + Radix * b[3]))

CounterInit == iv = [i \in Index |-> 0]

CounterNext == iv' = l3IncrementIV(iv)

CounterSpec == CounterInit /\ [][CounterNext]_iv

-----------------------------------------------------------------------------

\* The counter is made of bytes.
CounterTypeOK == iv \in [Index -> Byte]

Exhausted == [i \in Index |-> Radix - 1]

\* A step of the counter adds one to the number, and takes the last number
\* back to zero: no carry is lost and none is made up, which is what the
\* sessions of L3 rely upon when they count modulo IVMod.
AddsOne ==
  [][Value(iv') = IF iv = Exhausted THEN 0 ELSE Value(iv) + 1]_iv
=============================================================================
