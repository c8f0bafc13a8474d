------------------------------ MODULE Transport ------------------------------
(***************************************************************************)
(* What tropic01/transport.go promises of Transfer, as far as the layers   *)
(* above can tell: a Transfer that returns nil leaves in the caller's      *)
(* buffer the bytes that the chip sent during that very exchange.  The     *)
(* promise ends with the first call that returns an error, or that the end *)
(* of the process cuts short or prevents; from then on an answer may be an *)
(* older one.                                                              *)
(***************************************************************************)
EXTENDS Naturals

VARIABLES
  running,     \* a Transfer is running
  exchanges,   \* Transfers called so far; the running or last one is this one
  answer,      \* the exchange whose bytes the last Transfer returned, 0 for none
  failed       \* a call returned an error, did not return, or was never made

vars == <<running, exchanges, answer, failed>>

Init ==
  /\ ~running
  /\ exchanges = 0
  /\ answer = 0
  /\ ~failed

Transfer ==
  /\ ~running
  /\ running' = TRUE
  /\ exchanges' = exchanges + 1
  /\ answer' = 0
  /\ UNCHANGED failed

\* Transfer returns nil.
Answered ==
  /\ running
  /\ running' = FALSE
  /\ answer' = exchanges \/ (failed /\ answer' \in 0..exchanges)
  /\ UNCHANGED <<exchanges, failed>>

\* Transfer, or any other call, returns an error, is cut short or never made; it
\* may fail as soon as it is called.
Fails ==
  /\ running' = FALSE
  /\ exchanges' = exchanges \/ (~running /\ exchanges' = exchanges + 1)
  /\ answer' = 0
  /\ failed' = TRUE

\* The hardware is replaced or restarted, and the transport opened anew.
Recovers ==
  /\ ~running
  /\ answer' = 0
  /\ failed' = FALSE
  /\ UNCHANGED <<running, exchanges>>

Next == Transfer \/ Answered \/ Fails \/ Recovers

Spec == Init /\ [][Next]_vars
=============================================================================
