------------------------------ MODULE UsbBounds ------------------------------
(***************************************************************************)
(* The limits of the serial transport: the one of bufio, which gives up a  *)
(* read after so many attempts without a byte, and those of the model.     *)
(***************************************************************************)
EXTENDS Naturals

CONSTANTS
  EmptyReads,   \* reads without a byte after which bufio gives up, 100
  LinePieces,   \* bound of the model: pieces that a line arrives in
  MaxExchanges  \* bound of the model: calls of Transfer

ASSUME UsbDongleAssumption ==
  /\ EmptyReads \in Nat \ {0}
  /\ LinePieces \in Nat \ {0}
  /\ MaxExchanges \in Nat
=============================================================================
