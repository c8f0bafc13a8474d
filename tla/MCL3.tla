-------------------------------- MODULE MCL3 --------------------------------
(***************************************************************************)
(* Model-checking instances of L3.  Of the commands of Api, one that fits  *)
(* the L2 frames both ways, and those at the boundary where the command,   *)
(* and where the response, is a byte too long.                             *)
(***************************************************************************)
EXTENDS L3, Api

Fits == MCTRGet
CommandTooLong == RMemDataWrite(l2MaxDataSize - L3Overhead - 4 + 1)
ResponseTooLong == RandomValueGet(l2MaxDataSize - L3Overhead - 4 + 1)

OneCommand == {Fits}
MCCommands == {Fits, CommandTooLong, ResponseTooLong}

\* The methods whose lengths do not depend on their arguments: no response in
\* the documented layout is refused, and all of them fit an L2 frame both ways.
FixedCommands ==
  {PairingKeyWrite, PairingKeyRead, PairingKeyInvalidate, RMemDataErase,
   ECCKeyGenerate, ECCKeyStore, ECCKeyRead(32), ECCKeyRead(64), ECCKeyErase,
   ECDSASign, MCTRInit, MCTRUpdate, MCTRGet, RConfigWrite, RConfigRead,
   RConfigErase, IConfigWrite, IConfigRead, MacAndDestroy}

ASSUME FixedCommandsFit ==
  \A c \in FixedCommands :
    /\ c.min <= c.rsp
    /\ c.len + L3Overhead <= l2MaxDataSize
    /\ c.rsp + L3Overhead <= l2MaxDataSize
=============================================================================
