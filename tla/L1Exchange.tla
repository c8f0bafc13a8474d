----------------------------- MODULE L1Exchange -----------------------------
(***************************************************************************)
(* What the L1 functions l1Write and l1Read (tropic01/l1.go) promise to    *)
(* the L2 layer above them, with the SPI transactions hidden: during one   *)
(* call the chip takes the caller's frame, or gives out its response, at   *)
(* most once, and a read returns nil only when the chip gave a response.   *)
(* A write that returns nil promises nothing about delivery: l1Write gives *)
(* up silently when the chip never reports READY.                          *)
(***************************************************************************)
EXTENDS Sequences

CONSTANTS
  Requests,     \* the frames l2Send can hand to l1Write
  GetResponse   \* the frame l1Read clocks out itself

VARIABLES
  busy,    \* a call of l1Write or l1Read is running
  frame,   \* the frame this call clocks out
  given,   \* the frames the chip acted upon in this call, in order
  ok       \* the last call returned nil

vars == <<busy, frame, given, ok>>

Init ==
  /\ ~busy
  /\ frame = GetResponse
  /\ given = <<>>
  /\ ~ok

Call(f) ==
  /\ ~busy
  /\ busy' = TRUE
  /\ frame' = f
  /\ given' = <<>>
  /\ ok' = FALSE

\* The chip takes a request, or gives out its response, once in a call.
Exchange ==
  /\ busy
  /\ given = <<>>
  /\ given' = <<frame>>
  /\ UNCHANGED <<busy, frame, ok>>

Succeed ==
  /\ busy
  /\ frame = GetResponse => given # <<>>
  /\ busy' = FALSE
  /\ ok' = TRUE
  /\ UNCHANGED <<frame, given>>

\* A failing transfer may have reached the chip all the same.
Fail ==
  /\ busy
  /\ busy' = FALSE
  /\ given' \in {given, <<frame>>}
  /\ UNCHANGED <<frame, ok>>

Next ==
  \/ \E f \in Requests \union {GetResponse} : Call(f)
  \/ Exchange
  \/ Succeed
  \/ Fail

Spec == Init /\ [][Next]_vars
=============================================================================
