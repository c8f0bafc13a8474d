------------------------------ MODULE MCFrames ------------------------------
(***************************************************************************)
(* Frames as L2System sees them, with a flag for a checksum that matches,  *)
(* and bit by bit as Crc16 computes it.  The two share no state: what is   *)
(* checked is chosen at the start, and the instance has the behaviours of  *)
(* either.  The bytes of Crc16 are a good STATUS, the two values of LEN    *)
(* and a byte of data with which a frame of LEN 1, its LEN and two bits of *)
(* that byte flipped, is a right frame of LEN 0.                           *)
(***************************************************************************)
EXTENDS MCL2, Crc16

VARIABLE checked

SomeData == {{}, {0}, {0, 1, 2, 6}}

FramesInit == Init /\ LineInit /\ checked \in {"exchange", "checksum"}

FramesNext ==
  \/ checked = "exchange" /\ Next /\ UNCHANGED <<lineVars, checked>>
  \/ checked = "checksum" /\ LineNext /\ UNCHANGED <<vars, checked>>

FramesSpec == FramesInit /\ [][FramesNext]_<<vars, lineVars, checked>>
=============================================================================
