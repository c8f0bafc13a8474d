-------------------------------- MODULE Api ---------------------------------
(***************************************************************************)
(* The L3 commands of tropic01/api.go, one definition per method of        *)
(* Device.  All of them have the same control, the module L3: refuse       *)
(* outside a session, l3EncryptSend, l3DecryptReceive, l3Check, a minimum  *)
(* length.  They differ in the three lengths that decide whether a call    *)
(* can succeed:                                                            *)
(*   len   the plaintext of the command that the method builds,            *)
(*   rsp   the plaintext of the response, in the layout of its comment,    *)
(*   min   the shortest response that the method does not refuse.          *)
(* A method that looks at the result byte only has rsp = min = 1.          *)
(***************************************************************************)
EXTENDS Naturals

Command(len, rsp, min) == [len |-> len, rsp |-> rsp, min |-> min]

\* A method that returns no data.
Order(len) == Command(len, 1, 1)

Ping(n)              == Command(1 + n, 1 + n, 1)
PairingKeyWrite      == Order(36)
PairingKeyRead       == Command(3, 4 + 32, 4 + 32)
PairingKeyInvalidate == Order(3)
RMemDataWrite(n)     == Order(4 + n)
RMemDataRead(n)      == Command(3, 4 + n, 4)
RMemDataErase        == Order(3)
ECCKeyGenerate       == Order(4)
ECCKeyStore          == Order(48)
ECCKeyRead(pubkey)   == Command(3, 1 + 1 + 1 + 13 + pubkey, 15)
ECCKeyErase          == Order(3)
ECDSASign            == Command(48, 1 + 15 + 64, 1 + 15 + 64)
EdDSASign(n)         == Command(16 + n, 1 + 15 + 64, 1 + 15 + 64)
MCTRInit             == Order(8)
MCTRUpdate           == Order(3)
MCTRGet              == Command(3, 8, 8)
RandomValueGet(n)    == Command(2, 4 + n, 4)
RConfigWrite         == Order(8)
RConfigRead          == Command(3, 8, 8)
RConfigErase         == Order(1)
IConfigWrite         == Order(4)
IConfigRead          == Command(3, 8, 8)
MacAndDestroy        == Command(36, 4 + 32, 4 + 32)
=============================================================================
