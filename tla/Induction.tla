----------------------------- MODULE Induction -----------------------------
(***************************************************************************)
(* Induction on numbers, and what a definition along the numbers defines:  *)
(* the loops of the driver are such functions.  The theorems of the        *)
(* library take operators, these take sets and functions.                  *)
(***************************************************************************)
EXTENDS WellFoundedInduction, TLAPS

\* A set with 0 that is closed under the successor has every number.
LEMMA SetInduction ==
  ASSUME NEW S, 0 \in S, \A n \in Nat : n \in S => n + 1 \in S
  PROVE  Nat \subseteq S
<1> SUFFICES ASSUME Nat \ S # {} PROVE FALSE
  OBVIOUS
<1> DEFINE T == Nat \ S
           Less == OpToRel(<, Nat)
<1>1. IsWellFoundedOn(Less, Nat)
  BY NatLessThanWellFounded
<1>2. T \subseteq Nat /\ T # {}
  OBVIOUS
<1>3. Less = {p \in Nat \X Nat : p[1] < p[2]}
  BY DEF OpToRel
<1> HIDE DEF Less
<1>4. PICK x \in T : \A y \in T : ~(<<y, x>> \in Less)
  BY <1>1, <1>2, WFMin
<1>5. x \in Nat /\ x # 0 /\ x - 1 \in T
  OBVIOUS
<1>6. <<x - 1, x>> \in Less
  BY <1>3, <1>5
<1> QED
  BY <1>4, <1>5, <1>6

\* A set of numbers has a least one.
LEMMA Least ==
  ASSUME NEW T \in SUBSET Nat, T # {}
  PROVE  \E m \in T : \A n \in T : m <= n
<1> DEFINE S == {k \in Nat : \A n \in T : k <= n}
<1>1. 0 \in S
  OBVIOUS
<1>2. PICK k \in S : k + 1 \notin S
  <2>1. PICK n \in T : TRUE
    OBVIOUS
  <2>2. n + 1 \in Nat /\ n + 1 \notin S
    OBVIOUS
  <2>3. ~(Nat \subseteq S)
    BY <2>2
  <2> HIDE DEF S
  <2> QED
    BY <1>1, <2>3, SetInduction
<1>3. PICK n \in T : ~(k + 1 <= n)
  BY <1>2
<1>4. n = k
  BY <1>2, <1>3
<1> QED
  BY <1>2, <1>4

\* A function on 0..N can be given step by step.
LEMMA Recursion ==
  ASSUME NEW X, NEW c \in X, NEW N \in Nat, NEW F \in [1..N -> [X -> X]]
  PROVE  \E h \in [0..N -> X] : h[0] = c /\ \A k \in 1..N : h[k] = F[k][h[k - 1]]
<1> DEFINE Up(j) == \E h \in [0..j -> X] : h[0] = c /\ \A k \in 1..j : h[k] = F[k][h[k - 1]]
           S == {j \in Nat : j <= N => Up(j)}
<1>1. 0 \in S
  <2> DEFINE h == [k \in 0..0 |-> c]
  <2>1. h \in [0..0 -> X] /\ h[0] = c /\ \A k \in 1..0 : h[k] = F[k][h[k - 1]]
    OBVIOUS
  <2> HIDE DEF h
  <2>2. Up(0)
    BY <2>1
  <2> QED
    BY <2>2
<1>2. ASSUME NEW n \in Nat, n \in S PROVE n + 1 \in S
  <2> SUFFICES ASSUME n + 1 <= N PROVE Up(n + 1)
    OBVIOUS
  <2>1. PICK h \in [0..n -> X] : h[0] = c /\ \A k \in 1..n : h[k] = F[k][h[k - 1]]
    BY <1>2
  <2> DEFINE next == F[n + 1][h[n]]
             g == [k \in 0..(n + 1) |-> IF k <= n THEN h[k] ELSE next]
  <2>2. next \in X
    BY <2>1
  <2>3. g \in [0..(n + 1) -> X] /\ g[0] = c
    BY <2>1, <2>2
  <2>4. ASSUME NEW k \in 1..(n + 1) PROVE g[k] = F[k][g[k - 1]]
    <3>1. CASE k <= n
      BY <2>1, <3>1
    <3>2. CASE k = n + 1
      BY <3>2
    <3> QED
      BY <3>1, <3>2
  <2> HIDE DEF g
  <2> QED
    BY <2>3, <2>4
<1>3. N \in S
  <2> HIDE DEF S
  <2> QED
    BY <1>1, <1>2, SetInduction
<1> QED
  BY <1>3
=============================================================================
