--------------------------------- MODULE L3 ---------------------------------
(***************************************************************************)
(* The secure session of the driver over L2: Device.SessionStart,          *)
(* SessionAbort, Startup, Deinit and the L3 commands of tropic01/api.go    *)
(* with l3SessionStart, l3EncryptSend and l3DecryptReceive of l3.go.  The  *)
(* chip keeps the other end of the session.  AES-GCM is a ciphertext that  *)
(* only its key and nonce open; a Noise handshake is a pair of ephemeral   *)
(* keys, numbered in the order they are generated.                         *)
(***************************************************************************)
EXTENDS L2, Chip, FiniteSets

CONSTANTS
  Commands,       \* records [len, rsp, min], see Api
  certBlocks,     \* GET_INFO blocks that GetInfoCertStore reads
  IVMod,          \* the nonces l3IncrementIV goes through, 2^32
  l3TagSize,
  Plain,          \* methods of one L2 request: "STARTUP", "SLEEP", "GET_INFO", ...
  MaxHandshakes,  \* bounds of the model: calls of l3SessionStart,
  MaxCalls        \* and of l3EncryptSend

ASSUME L3Assumption ==
  /\ \A c \in Commands : c.len \in Nat /\ c.rsp \in Nat /\ c.min \in 0..c.rsp
  /\ certBlocks \in Nat \ {0}
  /\ IVMod \in Nat \ {0, 1}
  /\ l3TagSize \in Nat
  /\ Plain \subseteq {"STARTUP", "SLEEP", "GET_INFO", "GET_LOG"}
  /\ MaxHandshakes \in Nat
  /\ MaxCalls \in Nat

VARIABLES
  op,        \* the API method that runs, and how far it is
  command,   \* the command of the running L3 call
  block,     \* the next block GetInfoCertStore asks for
  session,   \* Device.session
  ret,       \* what the last method returned, while none runs
  eph,       \* history: host ephemeral keys generated
  chip,      \* the session the chip keeps
  etEph,     \* history: chip ephemeral keys generated
  sealed,    \* history: ciphertexts made by l3EncryptSend, in order
  executed,  \* history: calls the chip carried out, in order
  sizeError, \* history: a command of the session returned one of SizeErrors
  unseen     \* history: a write was lost since the session was established

host == <<op, command, block, session, ret, eph, sealed, sizeError>>
chipside == <<chip, etEph, executed>>
vars == <<l2vars, link, host, chipside, unseen>>

NoKey == [host |-> 0, chip |-> 0]
NoSession == [status |-> "sessionOff", key |-> NoKey, ivcmd |-> 0, ivres |-> 0]
NoReturn == [op |-> "none", err |-> "nil", answer |-> 0]
NoChipSession == [key |-> NoKey, ivcmd |-> 0, ivres |-> 0]

\* The call that is running or ran last is the number of its ciphertext.
call == Len(sealed)

\* A counter that stays where it is, one that wraps a step early and one that
\* does not wrap.
StuckIV(iv) == iv
NarrowIV(iv) == IF iv + 2 >= IVMod THEN 0 ELSE iv + 1
UnboundedIV(iv) == iv + 1

\* l3IncrementIV on the counter of 32 bits, see IVCounter.
l3IncrementIV(iv) == (iv + 1) % IVMod

\* Errors of a command that does not fit an L2 frame, and of a response that
\* comes in more than one.
SizeErrors == {"ErrL2ReqTooLong", "ErrL2ResCont"}

\* The L3 frame has a size of two bytes, the ciphertext and the tag.
L3Overhead == 2 + l3TagSize

Init ==
  /\ L2Init
  /\ ChipInit
  /\ op = "idle"
  /\ command = None
  /\ block = 0
  /\ session = NoSession
  /\ ret = NoReturn
  /\ eph = 0
  /\ chip = NoChipSession
  /\ etEph = 0
  /\ sealed = <<>>
  /\ executed = <<>>
  /\ sizeError = FALSE
  /\ unseen = FALSE

-----------------------------------------------------------------------------
\* The methods of Device.

Return(method, err, answer) ==
  /\ op' = "idle"
  /\ command' = None
  /\ block' = 0
  /\ L2Done
  /\ ret' = [op |-> method, err |-> err, answer |-> answer]

\* A session begins without a size error, and keeps the one that it meets.
Noted ==
  sizeError' =
    IF op' = "idle" /\ ret'.op = "SessionStart" /\ ret'.err = "nil" THEN FALSE
    ELSE sizeError \/ (op' = "idle" /\ ret'.op = "command" /\ ret'.err \in SizeErrors)

\* GetInfo(0x00, i).
GetCertBlock(i) == SendRecv([id |-> "CERT", len |-> 2, block |-> i])

\* SessionStart reads the certificate store; the old session is still there.
SessionStart ==
  /\ op = "idle"
  /\ eph < MaxHandshakes
  /\ op' = "cert"
  /\ block' = 0
  /\ GetCertBlock(0)
  /\ ret' = NoReturn
  /\ UNCHANGED <<command, session, eph, sealed>>

\* GetInfoCertStore has a block and asks for the next one.
CertBlock ==
  /\ op = "cert"
  /\ l2pc = "returned"
  /\ got.err = "nil"
  /\ block + 1 < certBlocks
  /\ block' = block + 1
  /\ GetCertBlock(block + 1)
  /\ UNCHANGED <<op, command, session, ret, eph, sealed>>

\* A block is missing, or extractChipPublicKey finds no key: SessionStart
\* returns before l3SessionStart is called.
CertFails ==
  /\ op = "cert"
  /\ l2pc = "returned"
  /\ \/ got.err # "nil"
     \/ block + 1 = certBlocks
  /\ Return("SessionStart", IF got.err = "nil" THEN "ErrFail" ELSE got.err, 0)
  /\ UNCHANGED <<session, eph, sealed>>

CertRead ==
  /\ op = "cert"
  /\ l2pc = "returned"
  /\ got.err = "nil"
  /\ block + 1 = certBlocks

\* l3SessionStart invalidates the session first and fails on the host's key,
\* or for want of randomness.
HostKeyFails ==
  /\ CertRead
  /\ session' = NoSession
  /\ \E err \in {"ErrParam", "ErrCrypto"} : Return("SessionStart", err, 0)
  /\ UNCHANGED <<eph, sealed>>

\* A handshake that is started with the old session in place.
HandshakeOverSession ==
  /\ CertRead
  /\ eph' = eph + 1
  /\ op' = "handshake"
  /\ SendRecv([id |-> "HANDSHAKE", len |-> 33, eph |-> eph + 1])
  /\ UNCHANGED <<command, block, session, ret, sealed>>

\* l3SessionStart invalidates the session, generates an ephemeral key and
\* sends the HANDSHAKE.
Handshake ==
  /\ CertRead
  /\ session' = NoSession
  /\ eph' = eph + 1
  /\ op' = "handshake"
  /\ SendRecv([id |-> "HANDSHAKE", len |-> 33, eph |-> eph + 1])
  /\ UNCHANGED <<command, block, ret, sealed>>

\* A response of the expected length, which carries the key of the chip.
HandshakeRsp == got.err = "nil" /\ got.data.id = "HANDSHAKE"

\* The tag is authentic: the chip answered to the ephemeral key of this
\* handshake.  The keys are stored and the nonces start from zero.
Established ==
  /\ op = "handshake"
  /\ l2pc = "returned"
  /\ HandshakeRsp
  /\ got.data.key.host = eph
  /\ session' = [status |-> "sessionOn", key |-> got.data.key, ivcmd |-> 0, ivres |-> 0]
  /\ unseen' = FALSE
  /\ Return("SessionStart", "nil", 0)
  /\ UNCHANGED <<eph, sealed>>

\* Why a handshake response is refused: it is missing, it is another one, or
\* its key or its tag is wrong (the chip's static key may be wrong too).
HandshakeErrors ==
  IF got.err # "nil" THEN {got.err}
  ELSE IF HandshakeRsp THEN {"ErrCrypto", "ErrL2HSKErr"} ELSE {"ErrL2RspLenError"}

HandshakeFails ==
  /\ op = "handshake"
  /\ l2pc = "returned"
  /\ \E err \in HandshakeErrors : Return("SessionStart", err, 0)
  /\ UNCHANGED <<session, eph, sealed>>

\* An L3 command, refused outside a session.
CommandRefused ==
  /\ op = "idle"
  /\ session.status = "sessionOff"
  /\ Return("command", "ErrNoSession", 0)
  /\ UNCHANGED <<session, eph, sealed>>

\* l3EncryptSend: the command is sealed with the nonce, which moves on before
\* l2SendRecv is called.
Encrypt(c) ==
  LET ct == [id |-> "ENCRYPTED_CMD", len |-> c.len + L3Overhead, key |-> session.key,
             iv |-> session.ivcmd, call |-> call + 1, rsp |-> c.rsp]
  IN
  /\ op = "idle"
  /\ session.status = "sessionOn"
  /\ call < MaxCalls
  /\ op' = "encrypt"
  /\ command' = c
  /\ sealed' = Append(sealed, [key |-> ct.key, iv |-> ct.iv, len |-> ct.len])
  /\ session' = [session EXCEPT !.ivcmd = l3IncrementIV(@)]
  /\ SendRecv(ct)
  /\ ret' = NoReturn
  /\ UNCHANGED <<block, eph>>

\* A method that reads a response whatever l3EncryptSend returned.
SentRegardless ==
  /\ op = "encrypt"
  /\ l2pc = "returned"
  /\ op' = "decrypt"
  /\ Receive
  /\ UNCHANGED <<command, block, ret, session, eph, sealed>>

\* l3EncryptSend returns.
Sent ==
  /\ op = "encrypt"
  /\ l2pc = "returned"
  /\ \/ /\ got.err # "nil"
        /\ Return("command", got.err, 0)
     \/ /\ got.err = "nil"
        /\ op' = "decrypt"
        /\ Receive
        /\ UNCHANGED <<command, block, ret>>
  /\ UNCHANGED <<session, eph, sealed>>

\* The ciphertext that key kres and nonce ivres of the session open.
Opens ==
  /\ got.err = "nil"
  /\ got.data.id = "RESULT"
  /\ got.data.key = session.key
  /\ got.data.iv = session.ivres

\* The errors that stand for the first byte of a response.
ResultError ==
  [FAIL |-> "ErrL3CmdFailed", UNAUTHORIZED |-> "ErrL3Unauthorized",
   INVALID_CMD |-> "ErrL3InvalidCmd", SLOT_NOT_EMPTY |-> "ErrL3SlotNotEmpty",
   SLOT_EXPIRED |-> "ErrL3SlotExpired", INVALID_KEY |-> "ErrL3InvalidKey",
   UPDATE_ERR |-> "ErrL3UpdateErr", COUNTER_INVALID |-> "ErrL3CounterInvalid",
   SLOT_EMPTY |-> "ErrL3SlotEmpty", SLOT_INVALID |-> "ErrL3SlotInvalid",
   HARDWARE_FAIL |-> "ErrL3HardwareFail"]

l3Check(rsp) ==
  IF rsp.result = "OK" THEN "nil"
  ELSE IF rsp.result \in DOMAIN ResultError THEN ResultError[rsp.result]
  ELSE "ErrFail"

\* What a method makes of the plaintext: the error of l3Check, then the
\* length that it expects.
Outcome(rsp) ==
  IF l3Check(rsp) = "nil" /\ rsp.len < command.min THEN "ErrFail" ELSE l3Check(rsp)

\* A session that opens a later response and goes on from its nonce.
DecryptedAhead ==
  /\ op = "decrypt"
  /\ l2pc = "returned"
  /\ got.err = "nil"
  /\ got.data.id = "RESULT"
  /\ got.data.key = session.key
  /\ session' = [session EXCEPT !.ivres = l3IncrementIV(got.data.iv)]
  /\ Return("command", Outcome(got.data), got.data.call)
  /\ UNCHANGED <<eph, sealed>>

\* l3DecryptReceive opens the response, and the method returns.
Decrypted ==
  /\ op = "decrypt"
  /\ l2pc = "returned"
  /\ Opens
  /\ session' = [session EXCEPT !.ivres = l3IncrementIV(@)]
  /\ Return("command", Outcome(got.data), got.data.call)
  /\ UNCHANGED <<eph, sealed>>

\* A response nonce that moves on when the response could not be opened.
DecryptFailsCounting ==
  /\ op = "decrypt"
  /\ l2pc = "returned"
  /\ ~Opens
  /\ session' = [session EXCEPT !.ivres = l3IncrementIV(@)]
  /\ Return("command", IF got.err = "nil" THEN "ErrCrypto" ELSE got.err, 0)
  /\ UNCHANGED <<eph, sealed>>

DecryptFails ==
  /\ op = "decrypt"
  /\ l2pc = "returned"
  /\ ~Opens
  /\ Return("command", IF got.err = "nil" THEN "ErrCrypto" ELSE got.err, 0)
  /\ UNCHANGED <<session, eph, sealed>>

\* SessionAbort, Startup, Sleep, GetInfo and GetLogReq: one L2 request.
PlainCall(id) ==
  /\ op = "idle"
  /\ op' = IF id = "SESSION_ABORT" THEN "abort" ELSE "plain"
  /\ SendRecv([id |-> id, len |-> 1])
  /\ ret' = NoReturn
  /\ UNCHANGED <<command, block, session, eph, sealed>>

PlainReturns ==
  /\ op = "plain"
  /\ l2pc = "returned"
  /\ Return(req.id, got.err, 0)
  /\ UNCHANGED <<session, eph, sealed>>

\* SessionAbort clears the session whatever became of its request.
AbortReturns ==
  /\ op = "abort"
  /\ l2pc = "returned"
  /\ session' = NoSession
  /\ Return("SESSION_ABORT", got.err, 0)
  /\ UNCHANGED <<eph, sealed>>

\* Deinit clears the session and returns the error of the transport's Deinit.
Deinit ==
  /\ op = "idle"
  /\ session' = NoSession
  /\ \E err \in {"nil", "ErrClose"} : Return("Deinit", err, 0)
  /\ UNCHANGED <<eph, sealed>>

\* The process ends, by a panic or from outside, and is started again with a
\* Device from NewDevice (between two calls that is what Deinit leaves).
Restart ==
  /\ op # "idle"
  /\ session' = NoSession
  /\ Return("none", "nil", 0)
  /\ UNCHANGED <<eph, sealed>>

-----------------------------------------------------------------------------
\* The chip, external to the repository.

Ack == Frame("REQUEST_OK", 0, [id |-> "ACK"])

\* The frames that carry the answer to the command ct: one, or a first and a
\* last part of an answer that is too long.
Result(ct, result, len) ==
  LET data == [id |-> "RESULT", key |-> chip.key, iv |-> chip.ivres,
               call |-> ct.call, result |-> result, len |-> len]
      part == [id |-> "PART"]
      size == len + L3Overhead
  IN IF size <= l2MaxDataSize
     THEN <<Frame("RESULT_OK", size, data)>>
     ELSE <<Frame("RESULT_CONT", l2MaxDataSize, part),
            Frame("RESULT_OK", size - l2MaxDataSize, part)>>

ChipOpens(ct) == chip.key # NoKey /\ ct.key = chip.key /\ ct.iv = chip.ivcmd

\* The chip opens a command, carries it out, and seals the answer: the data
\* asked for, nothing but the result byte, or a failure.
ChipExecutes(ct) ==
  /\ ChipOpens(ct)
  /\ chip' = [chip EXCEPT !.ivcmd = l3IncrementIV(@), !.ivres = l3IncrementIV(@)]
  /\ executed' = Append(executed, ct.call)
  /\ \E r \in {<<"OK", ct.rsp>>, <<"OK", 1>>, <<"FAIL", 1>>} :
       Answers(<<Ack>> \o Result(ct, r[1], r[2]))
  /\ UNCHANGED etEph

\* It cannot open the command and says so, at once or in place of the result;
\* it may give up its session.
ChipRejects(ct) ==
  /\ ~ChipOpens(ct)
  /\ LET no == StatusFrame(IF chip.key = NoKey THEN "NO_SESSION" ELSE "TAG_ERR")
     IN \E frames \in {<<no>>, <<Ack, no>>} : Answers(frames)
  /\ chip' \in {chip, NoChipSession}
  /\ UNCHANGED <<etEph, executed>>

ChipHandshakes(r) ==
  LET key == [host |-> r.eph, chip |-> etEph + 1] IN
  /\ etEph' = etEph + 1
  /\ chip' = [key |-> key, ivcmd |-> 0, ivres |-> 0]
  /\ Answers(<<Frame("REQUEST_OK", 48, [id |-> "HANDSHAKE", key |-> key])>>)
  /\ UNCHANGED executed

\* The pairing key is not accepted.
ChipRejectsHandshake ==
  /\ Answers(<<StatusFrame("HSK_ERR")>>)
  /\ UNCHANGED chipside

ChipAnswers(r) ==
  /\ Answers(<<Frame("REQUEST_OK", 128, [id |-> r.id])>>)
  /\ chip' = IF r.id \in {"STARTUP", "SESSION_ABORT"} THEN NoChipSession ELSE chip
  /\ UNCHANGED <<etEph, executed>>

\* The chip takes the request that l1Write sends.
ChipTakes ==
  \/ cur.id = "ENCRYPTED_CMD" /\ (ChipExecutes(cur) \/ ChipRejects(cur))
  \/ cur.id = "HANDSHAKE" /\ (ChipHandshakes(cur) \/ ChipRejectsHandshake)
  \/ cur.id \in Plain \union {"CERT", "SESSION_ABORT"} /\ ChipAnswers(cur)
  \/ cur = Resend /\ Resends /\ UNCHANGED chipside
  \/ cur # Resend /\ Refuses /\ UNCHANGED chipside
  \/ TakesGarbled /\ UNCHANGED chipside

\* It does not get the frame: it was not READY in any of the polls, or the
\* transport failed.
ChipMisses ==
  /\ SeesNothing
  /\ UNCHANGED chipside

ChipRestarts ==
  /\ Resets
  /\ chip' = NoChipSession
  /\ UNCHANGED <<l2vars, host, etEph, executed, unseen>>

-----------------------------------------------------------------------------
\* Steps of l2SendRecv and l2Receive, see L2.

Write ==
  /\ \/ Written /\ ChipTakes /\ UNCHANGED unseen
     \/ Written /\ ChipMisses /\ unseen' = TRUE
     \/ WriteFails /\ (ChipTakes \/ ChipMisses) /\ UNCHANGED unseen
  /\ UNCHANGED host

Read ==
  /\ Gives
  /\ \/ \E f \in OnWire(Head(out)) : ReadFrame(f)
     \/ ReadFails("ErrL1SPI")
  /\ UNCHANGED <<host, chipside, unseen>>

\* The chip has nothing to give in any of the polls.  A transport that fails
\* before the chip gives a frame ends in the same way, with another error.
ReadNothing ==
  /\ ReadFails("ErrL1Timeout")
  /\ UNCHANGED <<link, host, chipside, unseen>>

Stop ==
  /\ Exhausted \/ TooLong
  /\ UNCHANGED <<link, host, chipside, unseen>>

\* A method is called.
Call ==
  /\ \/ SessionStart
     \/ CommandRefused
     \/ \E c \in Commands : Encrypt(c)
     \/ \E id \in Plain \union {"SESSION_ABORT"} : PlainCall(id)
     \/ Deinit
  /\ Noted
  /\ UNCHANGED <<link, chipside, unseen>>

\* A method goes on, or returns, when L2 has returned to it.
Continue ==
  \/ /\ \/ CertBlock
        \/ CertFails
        \/ HostKeyFails
        \/ Handshake
        \/ HandshakeFails
        \/ Sent
        \/ Decrypted
        \/ DecryptFails
        \/ PlainReturns
        \/ AbortReturns
     /\ Noted
     /\ UNCHANGED <<link, chipside, unseen>>
  \/ Established /\ Noted /\ UNCHANGED <<link, chipside>>

HostStep == Write \/ Read \/ ReadNothing \/ Stop \/ Continue

Next ==
  \/ Call
  \/ HostStep
  \/ Restart /\ Noted /\ UNCHANGED <<link, chipside, unseen>>
  \/ ChipRestarts

Spec == Init /\ [][Next]_vars

\* A method that was called runs to its return: nothing in the driver waits
\* for anything but the next return of a transport call.
FairSpec == Spec /\ WF_vars(HostStep)

-----------------------------------------------------------------------------

Key == [host : Nat, chip : Nat]
IV == 0..(IVMod - 1)

\* What frames carry, to the chip and from it.
Requests ==
  [id : Plain \union {"RESEND", "SESSION_ABORT"}, len : Nat]
  \union [id : {"CERT"}, len : Nat, block : Nat]
  \union [id : {"HANDSHAKE"}, len : Nat, eph : Nat]
  \union [id : {"ENCRYPTED_CMD"}, len : Nat, key : Key, iv : IV, call : Nat, rsp : Nat]

Data ==
  [id : Plain \union {"NONE", "DAMAGED", "ACK", "PART", "CERT", "SESSION_ABORT"}]
  \union [id : {"HANDSHAKE"}, key : Key]
  \union [id : {"RESULT"}, key : Key, iv : IV, call : Nat,
          result : {"OK", "FAIL"}, len : Nat]

Status == {"REQUEST_OK", "RESULT_OK", "RESULT_CONT", "HSK_ERR", "NO_SESSION",
           "TAG_ERR", "CRC_ERR", "GEN_ERR"}

Frames == [status : Status, len : Nat, crcOK : BOOLEAN, data : Data]

Sealed == [key : Key, iv : IV, len : Nat]

L2Types ==
  /\ l2pc \in {"idle", "send", "read", "receive", "returned", "panicked"}
  /\ req \in Requests
  /\ cur \in Requests
  /\ tries \in 0..l2TransferRetries
  /\ l2pc = "returned" /\ got.err = "nil" => got.data \in Data

LinkTypes ==
  /\ out \in Seq(Frames)
  /\ kept \in Seq(Frames)

HostTypes ==
  /\ op \in {"idle", "cert", "handshake", "encrypt", "decrypt", "plain", "abort"}
  /\ op = "idle" <=> l2pc = "idle"
  /\ command \in Commands \union {None}
  /\ block \in 0..(certBlocks - 1)
  /\ session \in [status : {"sessionOff", "sessionOn"}, key : Key, ivcmd : IV, ivres : IV]
  /\ ret.answer \in Nat
  /\ eph \in Nat
  /\ sealed \in Seq(Sealed)

ChipTypes ==
  /\ chip \in [key : Key, ivcmd : IV, ivres : IV]
  /\ etEph \in Nat
  /\ executed \in Seq(Nat)

\* Types of the driver and the chip: nonces in the range of the counter, a
\* success of L2 with data of the chip, an L2 call exactly while a method runs.
TypeOK ==
  /\ L2Types
  /\ LinkTypes
  /\ HostTypes
  /\ ChipTypes
  /\ sizeError \in BOOLEAN
  /\ unseen \in BOOLEAN

Injective(s) == \A i, j \in DOMAIN s : s[i] = s[j] => i = j

\* No two commands are sealed with the same key and nonce, across sessions,
\* failed calls, retries and restarts, as long as fewer than IVMod commands
\* are sealed: l3IncrementIV wraps without an error.
NonceUnique ==
  Len(sealed) <= IVMod =>
    \A i, j \in DOMAIN sealed :
      sealed[i].key = sealed[j].key /\ sealed[i].iv = sealed[j].iv => i = j

\* The chip carries out a command at most once, although l2SendRecv may send
\* its ciphertext up to l2TransferRetries times.
AtMostOnce == Injective(executed)

\* A command that returns nil returns the chip's answer to this very call,
\* and the chip carried it out, unless a write was lost without an error in
\* the session (l1.go:52).
AnswerIsForThisCall ==
  ret.op = "command" /\ ret.err = "nil" /\ op = "idle" /\ ~unseen =>
    /\ ret.answer = call
    /\ \E i \in DOMAIN executed : executed[i] = call

\* While host and chip hold the same key, the chip is never ahead of the host
\* in commands, nor the host ahead of the chip in responses, and the chip has
\* answered every command that it opened.
NoncesOrdered ==
  session.key = chip.key /\ chip.key # NoKey /\ Len(sealed) < IVMod =>
    /\ chip.ivcmd <= session.ivcmd
    /\ session.ivres <= chip.ivres
    /\ chip.ivcmd = chip.ivres

\* A session that the host holds is the last one the chip agreed to: no
\* retry or late frame of a handshake leaves the host with keys that the chip
\* has replaced since.
KeyIsLatest ==
  session.status = "sessionOn" => session.key = [host |-> eph, chip |-> etEph]

\* A message that does not fit its L2 frame ends the usefulness of the session:
\* the nonce of a command that l2Send refuses is used up, and a response that
\* the chip splits is dropped with its nonce not counted.  From the return of
\* that error until the next handshake the two ends do not meet again, whatever
\* is called, retried, lost or asked for again meanwhile.
SizeErrorBreaksSession ==
  session.status = "sessionOn" /\ sizeError
    /\ chip.key = session.key /\ Len(sealed) < IVMod =>
      <<session.ivcmd, session.ivres>> # <<chip.ivcmd, chip.ivres>>

\* Every method that is called returns, or ends the process with the panic of
\* l2FrameCheck.
CallReturns == op # "idle" ~> (op = "idle" \/ l2pc = "panicked")

\* The status says "whether a secure session is active" (session.go:3), so it
\* is off when the chip has acknowledged a reboot.
RebootEndsSession ==
  op = "idle" /\ ret.op = "STARTUP" /\ ret.err = "nil" => session.status = "sessionOff"
=============================================================================
