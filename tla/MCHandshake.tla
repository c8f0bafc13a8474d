---------------------------- MODULE MCHandshake ----------------------------
(***************************************************************************)
(* What sessionState holds: the keys of the handshake and the counter of a *)
(* nonce.  The two models share no state: what is checked is chosen at the *)
(* start, and the instance has the behaviours of either.  The counter has  *)
(* four digits of a small radix.                                           *)
(*                                                                         *)
(* Of the two chips, the first has the same host key in both of its slots, *)
(* so that nothing but the transcript tells the slots apart; the second    *)
(* has another key in each.                                                *)
(***************************************************************************)
EXTENDS Handshake, IVCounter, TLC

CONSTANTS c1, c2, host1, host2, i1, i2

MCPaired == (c1 :> (i1 :> host1 @@ i2 :> host1)) @@ (c2 :> (i1 :> host1 @@ i2 :> host2))

VARIABLE checked

SessionInit == Init /\ CounterInit /\ checked \in {"keys", "nonce"}

SessionNext ==
  \/ checked = "keys" /\ Next /\ UNCHANGED <<iv, checked>>
  \/ checked = "nonce" /\ CounterNext /\ UNCHANGED <<vars, checked>>

SessionSpec == SessionInit /\ [][SessionNext]_<<vars, iv, checked>>
=============================================================================
