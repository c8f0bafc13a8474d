------------------------------ MODULE L3Proofs ------------------------------
(***************************************************************************)
(* Proofs about the secure session, for every number of commands, retries, *)
(* handshakes and nonces.  The first part proves the types of its state,   *)
(* and that no nonce is used twice with the same key.  The second is about *)
(* what the two ends of a session may assume of each other: commands are   *)
(* carried out once, a session is the last one that the chip agreed to,    *)
(* its nonces stay in order until a message is too long for its frame, and *)
(* a result is the one of its call.  The invariants say what the requests  *)
(* in flight and the frames in the chip's register can be.  The last part  *)
(* bounds the steps of a method.                                           *)
(***************************************************************************)
EXTENDS L3Service, SequenceTheorems, TLAPS

-----------------------------------------------------------------------------
\* Frames of the chip.

\* A frame the chip builds has the type of a frame.
LEMMA FrameType ==
  ASSUME NEW status \in Status, NEW len \in Nat, NEW data \in Data
  PROVE  Frame(status, len, data) \in Frames
BY DEF Frame, Frames

\* So has one without a payload.
LEMMA StatusFrameType ==
  ASSUME NEW status \in Status
  PROVE  StatusFrame(status) \in Frames
<1>1. [id |-> "NONE"] \in Data
  BY DEF Data
<1>2. QED
  BY <1>1 DEF StatusFrame, Frames

\* And the acknowledgment of a command.
LEMMA AckType == Ack \in Frames
<1>1. [id |-> "ACK"] \in Data
  BY DEF Data
<1>2. QED
  BY <1>1, FrameType DEF Ack, Status

\* What the line makes of a frame still has the type of a frame.
LEMMA OnWireType ==
  ASSUME NEW f \in Frames, NEW g \in OnWire(f)
  PROVE  g \in Frames
<1>1. [id |-> "DAMAGED"] \in Data
  BY DEF Data
<1>2. PICK data \in Data, status \in Status, len \in Nat, ok \in BOOLEAN :
        g = [status |-> status, len |-> len, crcOK |-> ok, data |-> data]
  <2>1. /\ f.status \in Status /\ f.len \in Nat /\ f.data \in Data /\ f.crcOK \in BOOLEAN
        /\ f = [status |-> f.status, len |-> f.len, crcOK |-> f.crcOK, data |-> f.data]
    BY DEF Frames
  <2>2. CASE g = f
    BY <2>1, <2>2
  <2>3. CASE g = [f EXCEPT !.data = [id |-> "DAMAGED"], !.crcOK = FALSE]
    <3>1. g = [status |-> f.status, len |-> f.len, crcOK |-> FALSE,
               data |-> [id |-> "DAMAGED"]]
      BY <2>3 DEF Frames
    <3>2. QED
      BY <3>1, <2>1, <1>1
  <2>4. CASE \E s \in {"CRC_ERR", "GEN_ERR"} : g = [f EXCEPT !.status = s, !.crcOK = FALSE]
    <3>1. PICK s \in {"CRC_ERR", "GEN_ERR"} : g = [f EXCEPT !.status = s, !.crcOK = FALSE]
      BY <2>4
    <3>2. g = [status |-> s, len |-> f.len, crcOK |-> FALSE, data |-> f.data] /\ s \in Status
      BY <3>1 DEF Frames, Status
    <3>3. QED
      BY <3>2, <2>1
  <2>5. CASE g = [f EXCEPT !.len = 255, !.crcOK = FALSE]
    <3>1. g = [status |-> f.status, len |-> 255, crcOK |-> FALSE, data |-> f.data]
      BY <2>5 DEF Frames
    <3>2. 255 \in Nat
      OBVIOUS
    <3>3. QED
      BY <3>1, <3>2, <2>1, ZenonT(30)
  <2>6. QED
    BY <2>2, <2>3, <2>4, <2>5 DEF OnWire
<1>3. QED
  BY <1>2 DEF Frames

-----------------------------------------------------------------------------
\* Actions of the chip's output register.

\* Answers with any frames, at once or after a general error.
LEMMA AnswersType ==
  ASSUME LinkTypes, NEW frames \in Seq(Frames), Answers(frames)
  PROVE  LinkTypes'
<1>1. <<GenErr>> \in Seq(Frames)
  BY StatusFrameType DEF GenErr, Status
<1>2. QED
  BY <1>1 DEF Answers, LinkTypes

\* The actions of the register that the request has no part in.
LEMMA RegisterType ==
  ASSUME LinkTypes, Refuses \/ TakesGarbled \/ Resends \/ SeesNothing \/ Resets
  PROVE  LinkTypes'
<1>1. <<GenErr>> \in Seq(Frames) /\ <<StatusFrame("CRC_ERR")>> \in Seq(Frames)
  BY StatusFrameType DEF GenErr, Status
<1>2. CASE Refuses
  BY <1>1, <1>2 DEF Refuses, LinkTypes
<1>3. CASE TakesGarbled
  BY <1>1, <1>3 DEF TakesGarbled, LinkTypes
<1>4. CASE Resends
  BY <1>1, <1>4, ConcatProperties DEF Resends, LinkTypes
<1>5. CASE SeesNothing
  BY <1>5 DEF SeesNothing, link, LinkTypes
<1>6. CASE Resets
  BY <1>6 DEF Resets, LinkTypes
<1>7. QED
  BY <1>2, <1>3, <1>4, <1>5, <1>6

\* The frame given out is the first of the register.
LEMMA GivesType ==
  ASSUME LinkTypes, Gives
  PROVE  LinkTypes' /\ Head(out) \in Frames
<1>1. Head(out) \in Frames /\ Tail(out) \in Seq(Frames)
  BY HeadTailProperties DEF Gives, LinkTypes
<1>2. <<Head(out)>> \in Seq(Frames)
  BY <1>1
<1>3. QED
  BY <1>1, <1>2 DEF Gives, LinkTypes

-----------------------------------------------------------------------------
\* The chip.

\* l3IncrementIV stays within the range of the counter.
LEMMA IVType ==
  ASSUME NEW iv \in IV
  PROVE  l3IncrementIV(iv) \in IV
BY L3Assumption DEF l3IncrementIV, IV

\* The absent session, on both sides, has the type of a session.
LEMMA NoSessionType ==
  /\ NoKey \in Key
  /\ 0 \in IV
  /\ NoChipSession \in [key : Key, ivcmd : IV, ivres : IV]
  /\ NoSession \in [status : {"sessionOff", "sessionOn"}, key : Key, ivcmd : IV, ivres : IV]
BY L3Assumption DEF NoKey, Key, IV, NoChipSession, NoSession

\* The id of a request tells what else it carries.
LEMMA RequestFields ==
  ASSUME NEW r \in Requests
  PROVE  /\ r.id = "ENCRYPTED_CMD" => r.call \in Nat /\ r.rsp \in Nat
         /\ r.id = "HANDSHAKE" => r.eph \in Nat
<1>1. r.id \in Plain \union {"RESEND", "SESSION_ABORT"} =>
        r.id \notin {"ENCRYPTED_CMD", "HANDSHAKE"}
  BY L3Assumption
<1>2. QED
  BY <1>1 DEF Requests

\* The sealed answer to a command, split or not, consists of frames.
LEMMA ResultType ==
  ASSUME L2Types, ChipTypes, NEW ct \in Requests, ct.id = "ENCRYPTED_CMD",
         NEW result \in {"OK", "FAIL"}, NEW len \in Nat
  PROVE  Result(ct, result, len) \in Seq(Frames)
<1>1. ct.call \in Nat
  BY RequestFields
<1>2. [id |-> "RESULT", key |-> chip.key, iv |-> chip.ivres,
       call |-> ct.call, result |-> result, len |-> len] \in Data
  BY <1>1 DEF Data, ChipTypes
<1>3. L3Overhead \in Nat /\ len + L3Overhead \in Nat /\ l2MaxDataSize \in Nat
  BY L3Assumption, L2Assumption DEF L3Overhead
<1>4. CASE len + L3Overhead <= l2MaxDataSize
  BY <1>2, <1>3, <1>4, FrameType DEF Result, Status
<1>5. CASE ~(len + L3Overhead <= l2MaxDataSize)
  <2>1. len + L3Overhead - l2MaxDataSize \in Nat
    BY <1>3, <1>5
  <2>2. [id |-> "PART"] \in Data
    BY DEF Data
  <2>3. /\ Frame("RESULT_CONT", l2MaxDataSize, [id |-> "PART"]) \in Frames
        /\ Frame("RESULT_OK", len + L3Overhead - l2MaxDataSize, [id |-> "PART"]) \in Frames
    BY <1>3, <2>1, <2>2, FrameType DEF Status
  <2>4. Result(ct, result, len) =
          <<Frame("RESULT_CONT", l2MaxDataSize, [id |-> "PART"]),
            Frame("RESULT_OK", len + L3Overhead - l2MaxDataSize, [id |-> "PART"])>>
    BY <1>3, <1>5 DEF Result
  <2>5. QED
    BY <2>3, <2>4
<1>6. QED
  BY <1>4, <1>5

\* The chip opens a command, answers, and moves its nonces.
LEMMA ExecutesType ==
  ASSUME L2Types, LinkTypes, ChipTypes, cur.id = "ENCRYPTED_CMD", ChipExecutes(cur)
  PROVE  LinkTypes' /\ ChipTypes'
<1>1. cur \in Requests /\ cur.call \in Nat /\ cur.rsp \in Nat
  BY RequestFields DEF L2Types
<1>2. ChipTypes'
  <2>1. executed' \in Seq(Nat)
    BY <1>1 DEF ChipExecutes, ChipTypes
  <2>2. chip' \in [key : Key, ivcmd : IV, ivres : IV]
    BY IVType DEF ChipExecutes, ChipTypes
  <2>3. QED
    BY <2>1, <2>2 DEF ChipExecutes, ChipTypes
<1>3. PICK r \in {<<"OK", cur.rsp>>, <<"OK", 1>>, <<"FAIL", 1>>} :
        Answers(<<Ack>> \o Result(cur, r[1], r[2]))
  BY DEF ChipExecutes
<1>4. r[1] \in {"OK", "FAIL"} /\ r[2] \in Nat
  BY <1>1
<1>5. Result(cur, r[1], r[2]) \in Seq(Frames)
  BY <1>1, <1>4, ResultType
<1>6. <<Ack>> \o Result(cur, r[1], r[2]) \in Seq(Frames)
  <2>1. <<Ack>> \in Seq(Frames)
    BY AckType
  <2>2. QED
    BY <1>5, <2>1, ConcatProperties
<1>7. QED
  BY <1>2, <1>3, <1>6, AnswersType

\* The chip cannot open a command.
LEMMA RejectsType ==
  ASSUME LinkTypes, ChipTypes, ChipRejects(cur)
  PROVE  LinkTypes' /\ ChipTypes'
<1> DEFINE no == StatusFrame(IF chip.key = NoKey THEN "NO_SESSION" ELSE "TAG_ERR")
<1>1. no \in Frames
  BY StatusFrameType DEF Status
<1>2. PICK frames \in {<<no>>, <<Ack, no>>} : Answers(frames)
  BY DEF ChipRejects
<1>3. frames \in Seq(Frames)
  <2>1. <<no>> \in Seq(Frames) /\ <<Ack, no>> \in Seq(Frames)
    BY <1>1, AckType
  <2>2. QED
    BY <1>2, <2>1
<1>4. LinkTypes'
  BY <1>2, <1>3, AnswersType
<1>5. ChipTypes'
  BY NoSessionType DEF ChipRejects, ChipTypes
<1>6. QED
  BY <1>4, <1>5

\* The chip takes or rejects a HANDSHAKE.
LEMMA HandshakesType ==
  ASSUME L2Types, LinkTypes, ChipTypes, cur.id = "HANDSHAKE",
         ChipHandshakes(cur) \/ ChipRejectsHandshake
  PROVE  LinkTypes' /\ ChipTypes'
<1>1. CASE ChipHandshakes(cur)
  <2> DEFINE key == [host |-> cur.eph, chip |-> etEph + 1]
  <2>1. key \in Key
    BY RequestFields DEF L2Types, ChipTypes, Key
  <2>2. [id |-> "HANDSHAKE", key |-> key] \in Data
    BY <2>1 DEF Data
  <2>3. <<Frame("REQUEST_OK", 48, [id |-> "HANDSHAKE", key |-> key])>> \in Seq(Frames)
    BY <2>2, FrameType DEF Status
  <2>4. LinkTypes'
    BY <1>1, <2>3, AnswersType DEF ChipHandshakes
  <2>5. ChipTypes'
    BY <1>1, <2>1, NoSessionType DEF ChipHandshakes, ChipTypes
  <2>6. QED
    BY <2>4, <2>5
<1>2. CASE ChipRejectsHandshake
  <2>1. <<StatusFrame("HSK_ERR")>> \in Seq(Frames)
    BY StatusFrameType DEF Status
  <2>2. QED
    BY <1>2, <2>1, AnswersType DEF ChipRejectsHandshake, chipside, ChipTypes
<1>3. QED
  BY <1>1, <1>2

\* The chip answers a request without a session.
LEMMA PlainAnswerType ==
  ASSUME LinkTypes, ChipTypes, cur.id \in Plain \union {"CERT", "SESSION_ABORT"},
         ChipAnswers(cur)
  PROVE  LinkTypes' /\ ChipTypes'
<1>1. [id |-> cur.id] \in Data
  BY DEF Data
<1>2. <<Frame("REQUEST_OK", 128, [id |-> cur.id])>> \in Seq(Frames)
  BY <1>1, FrameType DEF Status
<1>3. LinkTypes'
  BY <1>2, AnswersType DEF ChipAnswers
<1>4. ChipTypes'
  BY NoSessionType DEF ChipAnswers, ChipTypes
<1>5. QED
  BY <1>3, <1>4

\* Whatever the chip does with the request that is sent to it.
LEMMA TakesType ==
  ASSUME L2Types, LinkTypes, ChipTypes, ChipTakes \/ ChipMisses
  PROVE  LinkTypes' /\ ChipTypes'
<1>1. CASE cur.id = "ENCRYPTED_CMD" /\ (ChipExecutes(cur) \/ ChipRejects(cur))
  BY <1>1, ExecutesType, RejectsType
<1>2. CASE cur.id = "HANDSHAKE" /\ (ChipHandshakes(cur) \/ ChipRejectsHandshake)
  BY <1>2, HandshakesType
<1>3. CASE cur.id \in Plain \union {"CERT", "SESSION_ABORT"} /\ ChipAnswers(cur)
  BY <1>3, PlainAnswerType
<1>4. CASE (Resends \/ Refuses \/ TakesGarbled \/ SeesNothing) /\ UNCHANGED chipside
  BY <1>4, RegisterType DEF chipside, ChipTypes
<1>5. QED
  BY <1>1, <1>2, <1>3, <1>4 DEF ChipTakes, ChipMisses

-----------------------------------------------------------------------------
\* L2.

\* The RESEND that l2SendRecv falls back to is a request.
LEMMA ResendType == Resend \in Requests
BY DEF Resend, Requests

\* A method calls L2, or takes the result of its call.
LEMMA L2CallTypes ==
  ASSUME L2Types,
         (\E r \in Requests : SendRecv(r)) \/ Receive \/ L2Done
  PROVE  L2Types'
BY ResendType, L2Assumption DEF L2Types, SendRecv, Receive, L2Done, NoResult

\* A step of a running L2 call.
LEMMA L2StepTypes ==
  ASSUME L2Types,
         \/ Exhausted \/ TooLong \/ Written \/ WriteFails
         \/ ReadFails("ErrL1SPI") \/ ReadFails("ErrL1Timeout")
         \/ \E f \in Frames : ReadFrame(f)
  PROVE  L2Types' /\ l2pc # "idle" /\ l2pc' # "idle"
<1>1. CASE Exhausted \/ TooLong \/ WriteFails \/ ReadFails("ErrL1SPI") \/ ReadFails("ErrL1Timeout")
  BY <1>1 DEF Exhausted, TooLong, WriteFails, Writing, ReadFails, Reading, L2Return, L2Types
<1>2. CASE Written
  BY <1>2, L2Assumption DEF Written, Writing, L2Types
<1>3. CASE \E f \in Frames : ReadFrame(f)
  <2>1. PICK f \in Frames : ReadFrame(f)
    BY <1>3
  <2>2. f.data \in Data
    BY DEF Frames
  <2> DEFINE err == l2FrameCheck(f)
  <2> HIDE DEF err
  <2>3. /\ l2pc \in {"read", "receive"}
        /\ \/ l2pc' = "panicked" /\ UNCHANGED <<req, cur, tries, got>>
           \/ L2Return("nil", f.data) /\ UNCHANGED <<req, cur, tries>>
           \/ Retry(err)
           \/ err # "nil" /\ L2Return(err, None) /\ UNCHANGED <<req, cur, tries>>
    BY <2>1 DEF ReadFrame, Reading, err
  <2>4. CASE l2pc' = "panicked" /\ UNCHANGED <<req, cur, tries, got>>
    BY <2>3, <2>4 DEF L2Types
  <2>5. CASE L2Return("nil", f.data) /\ UNCHANGED <<req, cur, tries>>
    BY <2>2, <2>3, <2>5 DEF L2Types, L2Return
  <2>6. CASE Retry(err)
    BY <2>3, <2>6, ResendType DEF L2Types, Retry
  <2>7. CASE err # "nil" /\ L2Return(err, None) /\ UNCHANGED <<req, cur, tries>>
    BY <2>3, <2>7 DEF L2Types, L2Return
  <2>8. QED
    BY <2>3, <2>4, <2>5, <2>6, <2>7
<1>4. QED
  BY <1>1, <1>2, <1>3

-----------------------------------------------------------------------------
\* The methods.

\* Return ends a method with the types kept, whatever it returns.
LEMMA ReturnTypes ==
  ASSUME TypeOK, NEW method, NEW err, NEW answer \in Nat, Return(method, err, answer),
         UNCHANGED <<eph, sealed>>,
         session' = session \/ session' = NoSession
           \/ session' \in [status : {"sessionOff", "sessionOn"}, key : Key,
                            ivcmd : IV, ivres : IV]
  PROVE  L2Types' /\ HostTypes'
<1>1. L2Types' /\ l2pc' = "idle"
  BY L2CallTypes DEF Return, L2Done, TypeOK
<1>2. 0 \in 0..(certBlocks - 1)
  BY L3Assumption
<1>3. QED
  BY <1>1, <1>2, NoSessionType DEF Return, TypeOK, HostTypes

\* A method that is called from outside the driver.
LEMMA CallTypes ==
  ASSUME TypeOK, Call
  PROVE  L2Types' /\ HostTypes'
<1>1. CASE SessionStart
  <2>1. [id |-> "CERT", len |-> 2, block |-> 0] \in Requests
    BY DEF Requests
  <2>2. L2Types' /\ l2pc' = "send"
    BY <1>1, <2>1, L2CallTypes DEF SessionStart, GetCertBlock, SendRecv, TypeOK
  <2>3. QED
    BY <1>1, <2>2, L3Assumption DEF SessionStart, TypeOK, HostTypes, NoReturn
<1>2. CASE CommandRefused
  BY <1>2, ReturnTypes DEF CommandRefused
<1>3. ASSUME NEW c \in Commands, Encrypt(c)
      PROVE  L2Types' /\ HostTypes'
  <2> DEFINE ct == [id |-> "ENCRYPTED_CMD", len |-> c.len + L3Overhead, key |-> session.key,
                    iv |-> session.ivcmd, call |-> call + 1, rsp |-> c.rsp]
  <2>1. c.len + L3Overhead \in Nat /\ c.rsp \in Nat
    BY L3Assumption DEF L3Overhead
  <2>2. session.key \in Key /\ session.ivcmd \in IV /\ call + 1 \in Nat
    BY LenProperties DEF TypeOK, HostTypes, call
  <2>3. ct \in Requests
    BY <2>1, <2>2 DEF Requests
  <2>4. SendRecv(ct)
    BY <1>3 DEF Encrypt
  <2>5. L2Types' /\ l2pc' = "send"
    BY <2>3, <2>4, L2CallTypes DEF SendRecv, TypeOK
  <2>6. sealed' \in Seq(Sealed)
    <3>1. [key |-> ct.key, iv |-> ct.iv, len |-> ct.len] \in Sealed
      BY <2>1, <2>2 DEF Sealed
    <3>2. QED
      BY <1>3, <3>1 DEF Encrypt, TypeOK, HostTypes
  <2>7. session' \in [status : {"sessionOff", "sessionOn"}, key : Key, ivcmd : IV, ivres : IV]
    BY <1>3, <2>2, IVType DEF Encrypt, TypeOK, HostTypes
  <2>8. QED
    BY <1>3, <2>5, <2>6, <2>7 DEF Encrypt, TypeOK, HostTypes, NoReturn
<1>4. ASSUME NEW id \in Plain \union {"SESSION_ABORT"}, PlainCall(id)
      PROVE  L2Types' /\ HostTypes'
  <2>1. [id |-> id, len |-> 1] \in Requests
    BY DEF Requests
  <2>2. L2Types' /\ l2pc' = "send"
    BY <1>4, <2>1, L2CallTypes DEF PlainCall, SendRecv, TypeOK
  <2>3. QED
    BY <1>4, <2>2 DEF PlainCall, TypeOK, HostTypes, NoReturn
<1>5. CASE Deinit
  BY <1>5, ReturnTypes DEF Deinit
<1>6. QED
  BY <1>1, <1>2, <1>3, <1>4, <1>5 DEF Call

\* A method that goes on after its L2 call.
LEMMA ContinueTypes ==
  ASSUME TypeOK, Continue
  PROVE  L2Types' /\ HostTypes'
<1>1. CASE CertBlock
  <2>1. block + 1 \in 0..(certBlocks - 1)
    BY <1>1, L3Assumption DEF CertBlock, TypeOK, HostTypes
  <2>2. [id |-> "CERT", len |-> 2, block |-> block + 1] \in Requests
    BY <2>1 DEF Requests
  <2>3. L2Types' /\ l2pc' = "send"
    BY <1>1, <2>2, L2CallTypes DEF CertBlock, GetCertBlock, SendRecv, TypeOK
  <2>4. QED
    BY <1>1, <2>1, <2>3 DEF CertBlock, TypeOK, HostTypes
<1>2. CASE CertFails \/ HostKeyFails \/ HandshakeFails \/ DecryptFails
           \/ PlainReturns \/ AbortReturns
  BY <1>2, ReturnTypes
     DEF CertFails, HostKeyFails, HandshakeFails, DecryptFails, PlainReturns, AbortReturns
<1>3. CASE Handshake
  <2>1. eph + 1 \in Nat
    BY DEF TypeOK, HostTypes
  <2>2. [id |-> "HANDSHAKE", len |-> 33, eph |-> eph + 1] \in Requests
    BY <2>1 DEF Requests
  <2>3. L2Types' /\ l2pc' = "send"
    BY <1>3, <2>2, L2CallTypes DEF Handshake, SendRecv, TypeOK
  <2>4. QED
    BY <1>3, <2>3, NoSessionType DEF Handshake, CertRead, TypeOK, HostTypes
<1>4. CASE Sent
  <2>1. CASE got.err # "nil"
    BY <1>4, <2>1, ReturnTypes DEF Sent
  <2>2. CASE got.err = "nil"
    <3>1. L2Types' /\ l2pc' = "receive"
      BY <1>4, <2>2, L2CallTypes DEF Sent, Receive, TypeOK
    <3>2. QED
      BY <1>4, <2>2, <3>1 DEF Sent, TypeOK, HostTypes
  <2>3. QED
    BY <2>1, <2>2
<1>5. CASE Decrypted
  <2>1. session' \in [status : {"sessionOff", "sessionOn"}, key : Key, ivcmd : IV, ivres : IV]
    BY <1>5, IVType DEF Decrypted, TypeOK, HostTypes
  <2>2. got.data \in Data /\ got.data.id = "RESULT"
    BY <1>5 DEF Decrypted, Opens, TypeOK, L2Types
  <2>3. got.data.call \in Nat
    BY <2>2, L3Assumption DEF Data
  <2>4. QED
    BY <1>5, <2>1, <2>3, ReturnTypes DEF Decrypted
<1>6. CASE Established
  <2>1. got.data \in Data /\ got.data.id = "HANDSHAKE"
    BY <1>6 DEF Established, HandshakeRsp, TypeOK, L2Types
  <2>2. got.data.key \in Key
    BY <2>1, L3Assumption DEF Data
  <2>3. session' \in [status : {"sessionOff", "sessionOn"}, key : Key, ivcmd : IV, ivres : IV]
    BY <1>6, <2>2, NoSessionType DEF Established
  <2>4. QED
    BY <1>6, <2>3, ReturnTypes DEF Established
<1>7. QED
  BY <1>1, <1>2, <1>3, <1>4, <1>5, <1>6 DEF Continue

-----------------------------------------------------------------------------
\* The steps of the whole system.

\* While a method runs, a step of L2 leaves the methods' state as it is.
LEMMA HostKept ==
  ASSUME TypeOK, UNCHANGED host, l2pc # "idle", l2pc' # "idle"
  PROVE  HostTypes'
BY DEF TypeOK, HostTypes, host

\* l1Write, with what the chip makes of the frame.
LEMMA WriteTypes ==
  ASSUME TypeOK, Write
  PROVE  TypeOK'
<1>1. Written \/ WriteFails
  BY DEF Write
<1>2. ChipTakes \/ ChipMisses
  BY DEF Write
<1>3. L2Types' /\ l2pc # "idle" /\ l2pc' # "idle"
  BY <1>1, L2StepTypes DEF TypeOK
<1>4. LinkTypes' /\ ChipTypes'
  BY <1>2, TakesType DEF TypeOK
<1>5. HostTypes'
  BY <1>3, HostKept DEF Write
<1>6. unseen' \in BOOLEAN /\ sizeError' \in BOOLEAN
  BY DEF Write, TypeOK, host
<1>7. QED
  BY <1>3, <1>4, <1>5, <1>6 DEF TypeOK

\* l1Read of a frame, as the line leaves it.
LEMMA ReadTypes ==
  ASSUME TypeOK, Read
  PROVE  TypeOK'
<1>1. LinkTypes' /\ Head(out) \in Frames
  BY GivesType DEF Read, TypeOK
<1>2. ReadFails("ErrL1SPI") \/ \E f \in Frames : ReadFrame(f)
  BY <1>1, OnWireType DEF Read
<1>3. L2Types' /\ l2pc # "idle" /\ l2pc' # "idle"
  BY <1>2, L2StepTypes DEF TypeOK
<1>4. HostTypes'
  BY <1>3, HostKept DEF Read
<1>5. QED
  BY <1>1, <1>3, <1>4 DEF Read, TypeOK, host, chipside, ChipTypes

\* L2 returns without an exchange.
LEMMA StopTypes ==
  ASSUME TypeOK, ReadNothing \/ Stop
  PROVE  TypeOK'
<1>1. ReadFails("ErrL1Timeout") \/ Exhausted \/ TooLong
  BY DEF ReadNothing, Stop
<1>2. L2Types' /\ l2pc # "idle" /\ l2pc' # "idle"
  BY <1>1, L2StepTypes DEF TypeOK
<1>3. UNCHANGED <<link, host, chipside, unseen>>
  BY DEF ReadNothing, Stop
<1>4. HostTypes'
  BY <1>2, <1>3, HostKept
<1>5. QED
  BY <1>2, <1>3, <1>4 DEF TypeOK, host, chipside, ChipTypes, link, LinkTypes

\* Every step of the system keeps the types.
LEMMA StepTypes ==
  ASSUME TypeOK, Next
  PROVE  TypeOK'
<1>1. CASE Call
  <2>1. UNCHANGED <<link, chipside, unseen>> /\ sizeError' \in BOOLEAN
    BY <1>1 DEF Call, Noted, TypeOK
  <2>2. QED
    BY <1>1, <2>1, CallTypes DEF TypeOK, chipside, ChipTypes, link, LinkTypes
<1>2. CASE Continue
  <2>1. /\ UNCHANGED <<link, chipside>> /\ (unseen' = unseen \/ unseen' = FALSE)
        /\ sizeError' \in BOOLEAN
    BY <1>2 DEF Continue, Established, Noted, TypeOK
  <2>2. QED
    BY <1>2, <2>1, ContinueTypes DEF TypeOK, chipside, ChipTypes, link, LinkTypes
<1>3. CASE Restart /\ Noted /\ UNCHANGED <<link, chipside, unseen>>
  <2>1. L2Types' /\ HostTypes' /\ sizeError' \in BOOLEAN
    BY <1>3, ReturnTypes DEF Restart, Noted, TypeOK
  <2>2. QED
    BY <1>3, <2>1 DEF TypeOK, chipside, ChipTypes, link, LinkTypes
<1>4. CASE ChipRestarts
  <2>1. LinkTypes'
    BY <1>4, RegisterType DEF ChipRestarts, TypeOK
  <2>2. ChipTypes'
    BY <1>4, NoSessionType DEF ChipRestarts, TypeOK, ChipTypes
  <2>3. QED
    BY <1>4, <2>1, <2>2 DEF ChipRestarts, TypeOK, l2vars, L2Types, host, HostTypes
<1>5. QED
  BY <1>1, <1>2, <1>3, <1>4, WriteTypes, ReadTypes, StopTypes DEF Next, HostStep

\* Every state of the driver and of the chip has its type: nonces stay in the
\* range of the counter, and every result of L2 that is taken for a success
\* carries data that some frame of the chip can carry.
THEOREM Typing == Spec => []TypeOK
<1>1. Init => TypeOK
  <2> SUFFICES ASSUME Init PROVE TypeOK
    OBVIOUS
  <2>1. L2Types
    BY ResendType, L2Assumption DEF Init, L2Init, L2Types
  <2>2. LinkTypes
    BY DEF Init, ChipInit, LinkTypes
  <2>3. HostTypes
    BY NoSessionType, L3Assumption DEF Init, L2Init, HostTypes, NoReturn
  <2>4. ChipTypes
    BY NoSessionType DEF Init, ChipTypes
  <2>5. QED
    BY <2>1, <2>2, <2>3, <2>4 DEF Init, TypeOK
<1>2. TypeOK /\ [Next]_vars => TypeOK'
  <2>1. ASSUME TypeOK, UNCHANGED vars PROVE TypeOK'
    BY <2>1 DEF TypeOK, vars, l2vars, L2Types, link, LinkTypes, host, HostTypes,
                chipside, ChipTypes
  <2>2. QED
    BY <2>1, StepTypes
<1>3. QED
  BY <1>1, <1>2, PTL DEF Spec

-----------------------------------------------------------------------------
\* Nonces.

\* The host's ephemeral key of a running handshake sealed nothing yet.
HandshakeIsNew ==
  op = "handshake" =>
    /\ session.status = "sessionOff"
    /\ \A i \in DOMAIN sealed : sealed[i].key.host < eph

\* Keys belong to handshakes of the past, the session's to the last one.
KeysAreOld ==
  /\ \A i \in DOMAIN sealed : sealed[i].key.host <= eph
  /\ session.status = "sessionOn" => session.key.host = eph

\* The nonce that is next is above all that the session used, until the
\* counter comes to its end.
NonceIsNew ==
  session.status = "sessionOn" /\ Len(sealed) < IVMod =>
    /\ session.ivcmd <= Len(sealed)
    /\ \A i \in DOMAIN sealed : sealed[i].key = session.key => sealed[i].iv < session.ivcmd

NonceInv == TypeOK /\ HandshakeIsNew /\ KeysAreOld /\ NonceIsNew /\ NonceUnique

\* A step that seals nothing, generates no key and establishes no session.
Quiet ==
  /\ UNCHANGED <<sealed, eph>>
  /\ op' = "handshake" => op = "handshake"
  /\ \/ session' = NoSession
     \/ session' = session
     \/ session' = [session EXCEPT !.ivres = l3IncrementIV(@)]

\* The components of a ciphertext in the history.
LEMMA SealedFields ==
  ASSUME TypeOK, NEW i \in DOMAIN sealed
  PROVE  sealed[i].key.host \in Nat /\ sealed[i].iv \in Nat
<1>1. sealed[i] \in Sealed
  <2>1. sealed \in Seq(Sealed) /\ i \in 1..Len(sealed)
    BY DEF TypeOK, HostTypes
  <2>2. QED
    BY <2>1, ElementOfSeq
<1>2. sealed[i].key \in Key /\ sealed[i].iv \in IV
  BY <1>1 DEF Sealed
<1>3. QED
  BY <1>2, L3Assumption DEF Key, IV

\* Below its last value the counter just counts.
LEMMA IVCounts ==
  ASSUME NEW iv \in Nat, iv + 1 < IVMod
  PROVE  l3IncrementIV(iv) = iv + 1
<1>1. ASSUME NEW x \in Nat, NEW m \in Nat, x < m PROVE x % m = x
  BY <1>1, SMT
<1>2. QED
  BY <1>1, L3Assumption DEF l3IncrementIV

\* A quiet step keeps what is known of the nonces.
LEMMA QuietNonces ==
  ASSUME NonceInv, TypeOK', Quiet
  PROVE  NonceInv'
<1>1. /\ session'.status = "sessionOn" => session.status = "sessionOn"
      /\ session'.status = "sessionOn" =>
           session'.key = session.key /\ session'.ivcmd = session.ivcmd
  BY DEF Quiet, NoSession, NonceInv, TypeOK, HostTypes
<1>2. session'.status \in {"sessionOff", "sessionOn"} /\ session.status \in {"sessionOff", "sessionOn"}
  BY DEF NonceInv, TypeOK, HostTypes
<1>3. UNCHANGED <<sealed, eph>> /\ (op' = "handshake" => op = "handshake")
  BY DEF Quiet
<1>4. HandshakeIsNew' /\ KeysAreOld'
  BY <1>1, <1>2, <1>3 DEF NonceInv, HandshakeIsNew, KeysAreOld
<1>5. NonceIsNew'
  BY <1>1, <1>3 DEF NonceInv, NonceIsNew
<1>6. NonceUnique'
  BY <1>3 DEF NonceInv, NonceUnique
<1>7. QED
  BY <1>4, <1>5, <1>6 DEF NonceInv

\* A handshake takes a new ephemeral key, and drops the session.
LEMMA HandshakeNonces ==
  ASSUME NonceInv, TypeOK', Handshake
  PROVE  NonceInv'
<1>1. session' = NoSession /\ eph' = eph + 1 /\ UNCHANGED sealed
  BY DEF Handshake
<1>2. /\ eph \in Nat
      /\ \A i \in DOMAIN sealed : sealed[i].key.host \in Nat /\ sealed[i].key.host <= eph
  BY SealedFields DEF NonceInv, TypeOK, HostTypes, KeysAreOld
<1>3. QED
  BY <1>1, <1>2 DEF NonceInv, HandshakeIsNew, KeysAreOld, NonceIsNew, NonceUnique, NoSession

\* A session starts from nonce zero: its key has sealed nothing.
LEMMA EstablishedNonces ==
  ASSUME NonceInv, TypeOK', Established
  PROVE  NonceInv'
<1>1. /\ session' = [status |-> "sessionOn", key |-> got.data.key, ivcmd |-> 0, ivres |-> 0]
      /\ got.data.key.host = eph
      /\ op = "handshake" /\ op' = "idle"
      /\ UNCHANGED <<eph, sealed>>
  BY DEF Established, Return
<1>2. eph \in Nat /\ sealed \in Seq(Sealed) /\ Len(sealed) \in Nat
  BY LenProperties DEF NonceInv, TypeOK, HostTypes
<1>3. \A i \in DOMAIN sealed : sealed[i].key.host \in Nat /\ sealed[i].key.host < eph
  BY <1>1, SealedFields DEF NonceInv, HandshakeIsNew
<1>4. HandshakeIsNew' /\ KeysAreOld'
  BY <1>1, <1>2, <1>3 DEF HandshakeIsNew, KeysAreOld
<1>5. NonceIsNew'
  BY <1>1, <1>2, <1>3 DEF NonceIsNew
<1>6. NonceUnique'
  BY <1>1 DEF NonceInv, NonceUnique
<1>7. QED
  BY <1>4, <1>5, <1>6 DEF NonceInv

\* A command is sealed with the next nonce, which is above the used ones.
LEMMA EncryptNonces ==
  ASSUME NonceInv, TypeOK', NEW c \in Commands, Encrypt(c)
  PROVE  NonceInv'
<1> DEFINE s == [key |-> session.key, iv |-> session.ivcmd, len |-> c.len + L3Overhead]
           n == Len(sealed)
<1>1. /\ session.status = "sessionOn"
      /\ sealed' = Append(sealed, s)
      /\ session' = [session EXCEPT !.ivcmd = l3IncrementIV(@)]
      /\ op' = "encrypt"
      /\ UNCHANGED eph
  BY DEF Encrypt
<1>2. n \in Nat /\ eph \in Nat /\ IVMod \in Nat /\ session.ivcmd \in Nat
  BY LenProperties, L3Assumption DEF NonceInv, TypeOK, HostTypes, IV
<1>3. /\ Len(sealed') = n + 1
      /\ DOMAIN sealed = 1..n
      /\ DOMAIN sealed' = 1..(n + 1)
      /\ \A i \in 1..n : sealed'[i] = sealed[i]
      /\ sealed'[n + 1] = s
  BY <1>1, <1>2 DEF NonceInv, TypeOK, HostTypes
<1>4. session'.status = "sessionOn" /\ session'.key = session.key
      /\ session'.ivcmd = l3IncrementIV(session.ivcmd)
  BY <1>1 DEF NonceInv, TypeOK, HostTypes
<1>5. /\ \A i \in 1..n : sealed[i].key.host \in Nat /\ sealed[i].iv \in Nat
      /\ \A i \in 1..n : sealed[i].key.host <= eph
      /\ session.key.host = eph
  BY <1>1, <1>3, SealedFields DEF NonceInv, KeysAreOld
<1>6. HandshakeIsNew'
  BY <1>1 DEF HandshakeIsNew
<1>7. KeysAreOld'
  <2>1. \A i \in DOMAIN sealed' : sealed'[i].key.host <= eph
    <3> SUFFICES ASSUME NEW i \in 1..(n + 1) PROVE sealed'[i].key.host <= eph
      BY <1>3
    <3>1. CASE i = n + 1
      BY <1>2, <1>3, <1>5, <3>1
    <3>2. CASE i \in 1..n
      BY <1>3, <1>5, <3>2
    <3>3. QED
      BY <1>2, <3>1, <3>2
  <2>2. QED
    BY <1>1, <1>4, <1>5, <2>1 DEF KeysAreOld
<1>8. ASSUME n < IVMod
      PROVE  /\ session.ivcmd <= n
             /\ \A i \in 1..n : sealed[i].key = session.key => sealed[i].iv < session.ivcmd
  BY <1>1, <1>3, <1>8 DEF NonceInv, NonceIsNew
<1>9. NonceIsNew'
  <2> SUFFICES ASSUME n + 1 < IVMod
               PROVE  /\ session'.ivcmd <= n + 1
                      /\ \A i \in 1..(n + 1) :
                           sealed'[i].key = session.key => sealed'[i].iv < session'.ivcmd
    BY <1>3, <1>4 DEF NonceIsNew
  <2>1. session.ivcmd + 1 < IVMod
    BY <1>2, <1>8
  <2>2. session'.ivcmd = session.ivcmd + 1
    BY <1>2, <1>4, <2>1, IVCounts
  <2>3. session'.ivcmd <= n + 1
    BY <1>2, <1>8, <2>2
  <2>4. ASSUME NEW i \in 1..(n + 1), sealed'[i].key = session.key
        PROVE  sealed'[i].iv < session'.ivcmd
    <3>1. CASE i = n + 1
      BY <1>2, <1>3, <2>2, <3>1
    <3>2. CASE i \in 1..n
      <4>1. sealed[i].iv < session.ivcmd
        BY <1>2, <1>3, <1>8, <2>4, <3>2
      <4>2. QED
        BY <1>2, <1>3, <1>5, <2>2, <3>2, <4>1
    <3>3. QED
      BY <1>2, <3>1, <3>2
  <2>5. QED
    BY <2>3, <2>4
<1>10. NonceUnique'
  <2> SUFFICES ASSUME n + 1 <= IVMod, NEW i \in 1..(n + 1), NEW j \in 1..(n + 1),
                      sealed'[i].key = sealed'[j].key, sealed'[i].iv = sealed'[j].iv
               PROVE  i = j
    BY <1>3 DEF NonceUnique
  <2>1. n < IVMod /\ n <= IVMod
    BY <1>2
  <2>2. ASSUME NEW k \in 1..n PROVE sealed[k].key = s.key => sealed[k].iv # s.iv
    BY <1>2, <1>5, <1>8, <2>1
  <2>3. ASSUME NEW k \in 1..n, NEW m \in 1..n, sealed[k].key = sealed[m].key, sealed[k].iv = sealed[m].iv
        PROVE  k = m
    BY <1>3, <2>1, <2>3 DEF NonceInv, NonceUnique
  <2>4. CASE i \in 1..n /\ j \in 1..n
    BY <1>3, <2>3, <2>4
  <2>5. CASE i = n + 1 /\ j \in 1..n
    BY <1>3, <2>2, <2>5
  <2>6. CASE i \in 1..n /\ j = n + 1
    BY <1>3, <2>2, <2>6
  <2>7. QED
    BY <1>2, <2>4, <2>5, <2>6
<1>11. QED
  BY <1>6, <1>7, <1>9, <1>10 DEF NonceInv

\* What is not one of the three actions above is quiet.
LEMMA NextNonces ==
  ASSUME Next
  PROVE  Quiet \/ Handshake \/ Established \/ \E c \in Commands : Encrypt(c)
<1>1. CASE Call
  <2>1. CASE SessionStart
    BY <2>1 DEF SessionStart, Quiet
  <2>2. CASE CommandRefused \/ Deinit
    BY <2>2 DEF CommandRefused, Deinit, Return, Quiet
  <2>3. CASE \E id \in Plain \union {"SESSION_ABORT"} : PlainCall(id)
    BY <2>3 DEF PlainCall, Quiet
  <2>4. QED
    BY <1>1, <2>1, <2>2, <2>3 DEF Call
<1>2. CASE Write \/ Read \/ ReadNothing \/ Stop
  BY <1>2 DEF Write, Read, ReadNothing, Stop, host, Quiet
<1>3. CASE Continue
  <2>1. CASE CertBlock
    BY <2>1 DEF CertBlock, Quiet
  <2>2. CASE CertFails \/ HostKeyFails \/ HandshakeFails \/ DecryptFails \/ PlainReturns
             \/ AbortReturns
    BY <2>2 DEF CertFails, HostKeyFails, HandshakeFails, DecryptFails, PlainReturns,
                AbortReturns, Return, Quiet
  <2>3. CASE Sent
    BY <2>3 DEF Sent, Return, Quiet
  <2>4. CASE Decrypted
    BY <2>4 DEF Decrypted, Return, Quiet
  <2>5. QED
    BY <1>3, <2>1, <2>2, <2>3, <2>4 DEF Continue
<1>4. CASE Restart
  BY <1>4 DEF Restart, Return, Quiet
<1>5. CASE ChipRestarts
  BY <1>5 DEF ChipRestarts, host, Quiet
<1>6. QED
  BY <1>1, <1>2, <1>3, <1>4, <1>5 DEF Next, HostStep

\* The invariant about nonces holds.
LEMMA NonceInvariant == Spec => []NonceInv
<1>1. Init => HandshakeIsNew /\ KeysAreOld /\ NonceIsNew /\ NonceUnique
  BY DEF Init, NoSession, HandshakeIsNew, KeysAreOld, NonceIsNew, NonceUnique
<1>2. TypeOK /\ TypeOK' /\ [Next]_vars
        /\ HandshakeIsNew /\ KeysAreOld /\ NonceIsNew /\ NonceUnique
        => (HandshakeIsNew /\ KeysAreOld /\ NonceIsNew /\ NonceUnique)'
  <2> SUFFICES ASSUME NonceInv, TypeOK', [Next]_vars PROVE NonceInv'
    BY DEF NonceInv
  <2>1. CASE UNCHANGED vars
    BY <2>1, QuietNonces DEF vars, host, Quiet
  <2>2. CASE Next
    BY <2>2, NextNonces, QuietNonces, HandshakeNonces, EstablishedNonces, EncryptNonces
  <2>3. QED
    BY <2>1, <2>2
<1>3. QED
  BY <1>1, <1>2, Typing, PTL DEF Spec, NonceInv

\* No two commands are ever sealed with the same key and nonce, in any number
\* of sessions, with any number of retries, losses, restarts of the host and
\* of the chip, while no more commands are sealed than the counter has values.
THEOREM NonceUniqueness == Spec => []NonceUnique
<1>1. NonceInv => NonceUnique
  BY DEF NonceInv
<1>2. QED
  BY <1>1, NonceInvariant, PTL

-----------------------------------------------------------------------------
\* The two ends of a session: the invariants.

\* The command in flight is the last that was sealed, under the session's key
\* and with the nonce before the next; when the chip has carried it out, it has
\* moved on and does not open it again.
InFlight(r) ==
  r.id = "ENCRYPTED_CMD" =>
    /\ op = "encrypt"
    /\ r.call = call
    /\ r.key = session.key
    /\ call \in DOMAIN sealed /\ sealed[call].key = r.key /\ sealed[call].iv = r.iv
    /\ Len(sealed) < IVMod => session.ivcmd = r.iv + 1
    /\ ChipOpens(r) => \A i \in DOMAIN executed : executed[i] # r.call

\* What L2 has in hand belongs to the method that runs.
RequestInv ==
  /\ cur \in {req, Resend}
  /\ InFlight(req)
  /\ req.id = "HANDSHAKE" <=> op = "handshake"
  /\ req.id = "HANDSHAKE" => req.eph = eph
  /\ op = "encrypt" => req.id = "ENCRYPTED_CMD"
  /\ op = "decrypt" => l2pc \notin {"send", "read"}

\* The chip carried out commands that the host sealed, each once.
ExecutedInv ==
  /\ \A i \in DOMAIN executed : executed[i] <= call
  /\ AtMostOnce

\* Data that the chip can have given: keys of handshakes of the past, results
\* of commands carried out, with the nonces of the commands, below the chip's.
Known(d) ==
  /\ d.id = "HANDSHAKE" => d.key.host <= eph
  /\ d.id = "RESULT" =>
       /\ d.key.chip <= etEph
       /\ d.key = chip.key /\ chip.key # NoKey /\ Len(sealed) < IVMod => d.iv < chip.ivres
       /\ \E i \in DOMAIN executed : executed[i] = d.call
       /\ d.call \in DOMAIN sealed /\ sealed[d.call].key = d.key /\ sealed[d.call].iv = d.iv

KnownFrames == {f \in Frames : Known(f.data)}

KnownInv ==
  /\ out \in Seq(KnownFrames)
  /\ kept \in Seq(KnownFrames)
  /\ l2pc = "returned" /\ got.err = "nil" => Known(got.data)

\* Data that belong to the running method: the chip's last answer to the
\* handshake, or a result of this call.
Current(d) ==
  /\ op = "handshake" /\ d.id = "HANDSHAKE" /\ d.key.host = eph => d.key.chip = etEph
  /\ op # "handshake" /\ d.id = "RESULT" /\ d.key = session.key /\ ~unseen => d.call = call

CurrentFrames == {f \in Frames : Current(f.data)}

\* Where the running method can meet an answer, it is a current one.
CurrentInv ==
  op \in {"handshake", "encrypt", "decrypt"} =>
    /\ l2pc \in {"read", "receive"} => out \in Seq(CurrentFrames)
    /\ l2pc = "read" => kept \in Seq(CurrentFrames) \/ (out # <<>> /\ Head(out) # GenErr)
    /\ l2pc = "send" /\ (op = "handshake" \/ cur = Resend) =>
         out \in Seq(CurrentFrames) /\ kept \in Seq(CurrentFrames)
    /\ l2pc = "returned" /\ got.err = "nil" =>
         Current(got.data) /\ out \in Seq(CurrentFrames)

\* The chip's session is one of its past handshakes; while the host is in the
\* middle of one, the chip has not used it.
ChipInv ==
  /\ chip.ivcmd = chip.ivres
  /\ chip.key.chip <= etEph
  /\ chip.key.host <= eph
  /\ op = "handshake" /\ chip.key.host = eph => chip.ivcmd = 0
  /\ session.status = "sessionOff" => session.key = NoKey

SessionInv ==
  /\ RequestInv
  /\ ExecutedInv
  /\ KnownInv
  /\ CurrentInv
  /\ ChipInv
  /\ KeyIsLatest
  /\ NoncesOrdered
  /\ AnswerIsForThisCall

-----------------------------------------------------------------------------
\* The chip's output register, for any set of frames.

\* What the chip answers a request with replaces the frames to be read; those
\* kept for RESEND are replaced as well, or will be by the first frame read.
LEMMA AnswersIn ==
  ASSUME NEW S, NEW frames \in Seq(S), frames # <<>>, Head(frames) # GenErr, GenErr \in S,
         Answers(frames)
  PROVE  /\ out' \in Seq(S)
         /\ kept \in Seq(S) => kept' \in Seq(S)
         /\ kept' \in Seq(S) \/ (out' # <<>> /\ Head(out') # GenErr)
<1>1. <<GenErr>> \in Seq(S)
  OBVIOUS
<1>2. QED
  BY <1>1 DEF Answers

\* A refusal, and a frame that the line garbled.
LEMMA RefusesIn ==
  ASSUME NEW S, GenErr \in S, StatusFrame("CRC_ERR") \in S, Refuses \/ TakesGarbled
  PROVE  /\ out' \in Seq(S)
         /\ kept \in Seq(S) => kept' \in Seq(S)
         /\ kept' \in Seq(S) \/ (out' # <<>> /\ Head(out') # GenErr)
<1>1. <<GenErr>> \in Seq(S) /\ <<StatusFrame("CRC_ERR")>> \in Seq(S)
  OBVIOUS
<1>2. CASE Refuses
  BY <1>1, <1>2 DEF Refuses
<1>3. CASE TakesGarbled
  <2>1. out' = <<StatusFrame("CRC_ERR")>> /\ kept' = kept
    BY <1>3 DEF TakesGarbled
  <2>2. Head(out') = StatusFrame("CRC_ERR") /\ out' # <<>>
    BY <2>1
  <2>3. StatusFrame("CRC_ERR") # GenErr
    BY DEF StatusFrame, GenErr
  <2>4. QED
    BY <1>1, <2>1, <2>2, <2>3
<1>4. QED
  BY <1>2, <1>3

\* A repetition, and a request that is missed.
LEMMA ResendsIn ==
  ASSUME NEW S, GenErr \in S, out \in Seq(S), kept \in Seq(S), Resends \/ SeesNothing
  PROVE  out' \in Seq(S) /\ kept' \in Seq(S)
<1>1. <<GenErr>> \in Seq(S) /\ kept \o out \in Seq(S)
  BY ConcatProperties
<1>2. QED
  BY <1>1 DEF Resends, SeesNothing, link

\* The chip gives out its next frame.
LEMMA GivesIn ==
  ASSUME NEW S, out \in Seq(S), Gives
  PROVE  /\ Head(out) \in S
         /\ out' \in Seq(S)
         /\ kept \in Seq(S) \/ Head(out) # GenErr => kept' \in Seq(S)
<1>1. Head(out) \in S /\ Tail(out) \in Seq(S)
  BY HeadTailProperties DEF Gives
<1>2. <<Head(out)>> \in Seq(S)
  BY <1>1
<1>3. QED
  BY <1>1, <1>2 DEF Gives

\* The line keeps the data of a frame, or leaves none to be recognised.
LEMMA OnWireData ==
  ASSUME NEW f \in Frames, NEW g \in OnWire(f)
  PROVE  g.data = f.data \/ g.data = [id |-> "DAMAGED"]
<1>1. CASE g = f
  BY <1>1
<1>2. CASE g = [f EXCEPT !.data = [id |-> "DAMAGED"], !.crcOK = FALSE]
  BY <1>2 DEF Frames
<1>3. CASE \E s \in {"CRC_ERR", "GEN_ERR"} : g = [f EXCEPT !.status = s, !.crcOK = FALSE]
  BY <1>3 DEF Frames
<1>4. CASE g = [f EXCEPT !.len = 255, !.crcOK = FALSE]
  BY <1>4 DEF Frames
<1>5. QED
  BY <1>1, <1>2, <1>3, <1>4 DEF OnWire

-----------------------------------------------------------------------------
\* What the chip makes of a request.

\* Data of an answer that the chip gives to the request in this step.
Given(d) ==
  \/ d.id \notin {"HANDSHAKE", "RESULT"}
  \/ /\ d.id = "HANDSHAKE"
     /\ cur.id = "HANDSHAKE"
     /\ ChipHandshakes(cur)
     /\ d.key = [host |-> cur.eph, chip |-> etEph']
  \/ /\ d.id = "RESULT"
     /\ cur.id = "ENCRYPTED_CMD"
     /\ ChipExecutes(cur)
     /\ d.key = chip.key
     /\ d.iv = chip.ivres
     /\ d.call = cur.call

\* Only a command's answer is split.
Split(f) == f.status = "RESULT_CONT"

GivenFrames ==
  {f \in Frames : Given(f.data) /\ (Split(f) => cur.id = "ENCRYPTED_CMD" /\ ChipExecutes(cur))}

\* Frames of answers that are not split, and those without a result.
WholeFrames == {f \in Frames : ~Split(f)}
BareFrames == {f \in Frames : f.data.id # "RESULT"}

\* Frames without data of a method.
LEMMA PlainFrames ==
  /\ GenErr \in GivenFrames
  /\ Ack \in GivenFrames
  /\ \A status \in Status \ {"RESULT_CONT"} : StatusFrame(status) \in GivenFrames
<1>1. \A status \in Status \ {"RESULT_CONT"} : StatusFrame(status) \in GivenFrames
  BY StatusFrameType DEF StatusFrame, GivenFrames, Given, Split
<1>2. Ack \in GivenFrames
  BY AckType DEF Ack, Frame, GivenFrames, Given, Split
<1>3. QED
  BY <1>1, <1>2 DEF GenErr, Status

\* The answer to a command is of given frames, the first of them no error; if it
\* is split, it has no result.
LEMMA ExecutesGives ==
  ASSUME TypeOK, cur.id = "ENCRYPTED_CMD", ChipExecutes(cur)
  PROVE  \E frames \in Seq(GivenFrames) :
           /\ frames # <<>> /\ Head(frames) # GenErr /\ Answers(frames)
           /\ frames \in Seq(WholeFrames) \/ frames \in Seq(BareFrames)
<1>1. PICK r \in {<<"OK", cur.rsp>>, <<"OK", 1>>, <<"FAIL", 1>>} :
        Answers(<<Ack>> \o Result(cur, r[1], r[2]))
  BY DEF ChipExecutes
<1>2. cur \in Requests /\ cur.rsp \in Nat
  BY RequestFields DEF TypeOK, L2Types
<1>3. r[1] \in {"OK", "FAIL"} /\ r[2] \in Nat
  BY <1>2
<1>4. Result(cur, r[1], r[2]) \in Seq(Frames)
  BY <1>2, <1>3, ResultType DEF TypeOK
<1> DEFINE data == [id |-> "RESULT", key |-> chip.key, iv |-> chip.ivres,
                    call |-> cur.call, result |-> r[1], len |-> r[2]]
           part == [id |-> "PART"]
           size == r[2] + L3Overhead
<1>5. Given(data) /\ Given(part)
  BY DEF Given
<1>6. /\ Result(cur, r[1], r[2]) \in Seq(GivenFrames)
      /\ \/ Result(cur, r[1], r[2]) \in Seq(WholeFrames)
         \/ Result(cur, r[1], r[2]) \in Seq(BareFrames)
  <2>1. CASE size <= l2MaxDataSize
    <3>1. Result(cur, r[1], r[2]) = <<Frame("RESULT_OK", size, data)>>
      BY <2>1 DEF Result
    <3>2. Frame("RESULT_OK", size, data) \in Frames
      BY <1>4, <3>1
    <3>3. Frame("RESULT_OK", size, data) \in GivenFrames \intersect WholeFrames
      BY <3>2, <1>5 DEF Frame, GivenFrames, WholeFrames, Split
    <3>4. QED
      BY <3>1, <3>3
  <2>2. CASE ~(size <= l2MaxDataSize)
    <3> DEFINE a == Frame("RESULT_CONT", l2MaxDataSize, part)
               b == Frame("RESULT_OK", size - l2MaxDataSize, part)
    <3>1. Result(cur, r[1], r[2]) = <<a, b>>
      BY <2>2 DEF Result
    <3>2. a \in Frames /\ b \in Frames
      BY <1>4, <3>1
    <3>3. a.data = part /\ b.data = part
      BY DEF Frame
    <3>4. a \in GivenFrames \intersect BareFrames /\ b \in GivenFrames \intersect BareFrames
      BY <3>2, <3>3, <1>5 DEF GivenFrames, BareFrames
    <3>5. QED
      BY <3>1, <3>4
  <2>3. QED
    BY <2>1, <2>2
<1>7. <<Ack>> \in Seq(GivenFrames) /\ <<Ack>> \in Seq(WholeFrames) /\ <<Ack>> \in Seq(BareFrames)
  BY PlainFrames, AckType DEF WholeFrames, BareFrames, Ack, Frame, Split
<1> DEFINE frames == <<Ack>> \o Result(cur, r[1], r[2])
<1>8. /\ frames \in Seq(GivenFrames)
      /\ frames \in Seq(WholeFrames) \/ frames \in Seq(BareFrames)
      /\ Len(frames) = 1 + Len(Result(cur, r[1], r[2]))
      /\ frames[1] = Ack
  BY <1>6, <1>7, ConcatProperties, LenProperties
<1>9. frames # <<>> /\ Head(frames) = Ack
  BY <1>6, <1>8, LenProperties, EmptySeq
<1>10. Ack # GenErr
  BY DEF Ack, Frame, GenErr, StatusFrame
<1>11. QED
  BY <1>1, <1>8, <1>9, <1>10

\* So is the answer to a command that it cannot open.
LEMMA RejectsGives ==
  ASSUME ChipRejects(cur)
  PROVE  \E frames \in Seq(GivenFrames) :
           frames # <<>> /\ Head(frames) # GenErr /\ Answers(frames)
<1> DEFINE no == StatusFrame(IF chip.key = NoKey THEN "NO_SESSION" ELSE "TAG_ERR")
<1>1. PICK frames \in {<<no>>, <<Ack, no>>} : Answers(frames)
  BY DEF ChipRejects
<1>2. no \in GivenFrames
  BY PlainFrames DEF Status
<1>3. no # GenErr /\ Ack # GenErr
  BY DEF StatusFrame, GenErr, Ack, Frame
<1> HIDE DEF no
<1>4. <<no>> \in Seq(GivenFrames) /\ <<Ack, no>> \in Seq(GivenFrames)
  BY <1>2, PlainFrames
<1>5. \A first, second : <<first>> # <<>> /\ Head(<<first>>) = first
                          /\ <<first, second>> # <<>> /\ Head(<<first, second>>) = first
  OBVIOUS
<1>6. frames \in Seq(GivenFrames) /\ frames # <<>> /\ Head(frames) \in {no, Ack}
  BY <1>1, <1>4, <1>5
<1>7. QED
  BY <1>1, <1>3, <1>6

\* And the answers to other requests.
LEMMA OthersGive ==
  ASSUME TypeOK,
         \/ cur.id = "HANDSHAKE" /\ (ChipHandshakes(cur) \/ ChipRejectsHandshake)
         \/ cur.id \in Plain \union {"CERT", "SESSION_ABORT"} /\ ChipAnswers(cur)
  PROVE  \E frames \in Seq(GivenFrames) :
           frames # <<>> /\ Head(frames) # GenErr /\ Answers(frames)
<1>1. \E f \in GivenFrames : f # GenErr /\ Answers(<<f>>)
  <2>1. CASE cur.id = "HANDSHAKE" /\ ChipHandshakes(cur)
    <3> DEFINE key == [host |-> cur.eph, chip |-> etEph + 1]
               data == [id |-> "HANDSHAKE", key |-> key]
               f == Frame("REQUEST_OK", 48, data)
    <3>1. key \in Key
      BY <2>1, RequestFields DEF TypeOK, L2Types, ChipTypes, Key
    <3>2. data \in Data /\ Given(data)
      BY <2>1, <3>1 DEF Data, Given, ChipHandshakes
    <3>3. f \in GivenFrames
      BY <3>2, FrameType DEF Status, Frame, GivenFrames, Split
    <3>4. f # GenErr
      BY DEF Frame, GenErr, StatusFrame
    <3>5. QED
      BY <2>1, <3>3, <3>4 DEF ChipHandshakes
  <2>2. CASE ChipRejectsHandshake
    <3>1. StatusFrame("HSK_ERR") \in GivenFrames /\ StatusFrame("HSK_ERR") # GenErr
      BY PlainFrames DEF Status, StatusFrame, GenErr
    <3>2. QED
      BY <2>2, <3>1 DEF ChipRejectsHandshake
  <2>3. CASE cur.id \in Plain \union {"CERT", "SESSION_ABORT"} /\ ChipAnswers(cur)
    <3> DEFINE data == [id |-> cur.id]
               f == Frame("REQUEST_OK", 128, data)
    <3>1. data \in Data /\ Given(data)
      BY <2>3, L3Assumption DEF Data, Given
    <3>2. f \in GivenFrames /\ f # GenErr
      BY <3>1, FrameType DEF Status, Frame, GivenFrames, Split, GenErr, StatusFrame
    <3>3. QED
      BY <2>3, <3>2 DEF ChipAnswers
  <2>4. QED
    BY <2>1, <2>2, <2>3
<1>2. PICK f \in GivenFrames : f # GenErr /\ Answers(<<f>>)
  BY <1>1
<1>3. <<f>> \in Seq(GivenFrames) /\ <<f>> # <<>> /\ Head(<<f>>) = f
  OBVIOUS
<1>4. QED
  BY <1>2, <1>3

\* Given frames replace the ones to be read, except after a RESEND, where they
\* come before these.
LEMMA TakesIn ==
  ASSUME TypeOK, ChipTakes, NEW S, GivenFrames \subseteq S
  PROVE  /\ out \in Seq(S) /\ kept \in Seq(S) => out' \in Seq(S) /\ kept' \in Seq(S)
         /\ cur # Resend =>
              /\ out' \in Seq(S)
              /\ kept' \in Seq(S) \/ (out' # <<>> /\ Head(out') # GenErr)
<1>1. GenErr \in S /\ StatusFrame("CRC_ERR") \in S
  BY PlainFrames DEF Status
<1>2. ASSUME NEW frames \in Seq(GivenFrames), frames # <<>>, Head(frames) # GenErr,
             Answers(frames)
      PROVE  /\ out' \in Seq(S)
             /\ kept \in Seq(S) => kept' \in Seq(S)
             /\ kept' \in Seq(S) \/ (out' # <<>> /\ Head(out') # GenErr)
  <2>1. frames \in Seq(S)
    BY SeqMonotonic
  <2>2. QED
    BY <1>1, <1>2, <2>1, AnswersIn
<1>3. CASE \/ cur.id = "ENCRYPTED_CMD" /\ (ChipExecutes(cur) \/ ChipRejects(cur))
           \/ cur.id = "HANDSHAKE" /\ (ChipHandshakes(cur) \/ ChipRejectsHandshake)
           \/ cur.id \in Plain \union {"CERT", "SESSION_ABORT"} /\ ChipAnswers(cur)
  <2>1. \E frames \in Seq(GivenFrames) :
          frames # <<>> /\ Head(frames) # GenErr /\ Answers(frames)
    BY <1>3, ExecutesGives, RejectsGives, OthersGive
  <2>2. QED
    BY <1>2, <2>1
<1>4. CASE Refuses \/ TakesGarbled
  BY <1>1, <1>4, RefusesIn
<1>5. CASE cur = Resend /\ Resends
  BY <1>1, <1>5, ResendsIn
<1>6. QED
  BY <1>3, <1>4, <1>5 DEF ChipTakes

\* What becomes of the chip's session and of its histories.
ChipStep ==
  \/ UNCHANGED chipside
  \/ cur.id = "ENCRYPTED_CMD" /\ ChipExecutes(cur)
  \/ cur.id = "HANDSHAKE" /\ ChipHandshakes(cur)
  \/ chip' = NoChipSession /\ UNCHANGED <<etEph, executed>>

\* The chip takes a request or misses it in one of these ways.
LEMMA ChipSteps ==
  ASSUME ChipTakes \/ ChipMisses
  PROVE  ChipStep
BY DEF ChipTakes, ChipMisses, ChipRejects, ChipRejectsHandshake, ChipAnswers, chipside, ChipStep

\* The types that the arithmetic below needs.
LEMMA Numbers ==
  ASSUME TypeOK
  PROVE  /\ eph \in Nat /\ etEph \in Nat /\ call \in Nat /\ Len(sealed) \in Nat
         /\ chip.ivcmd \in IV /\ chip.ivres \in IV
         /\ session.ivcmd \in IV /\ session.ivres \in IV
         /\ chip.key \in Key /\ session.key \in Key
         /\ session.status \in {"sessionOff", "sessionOn"}
         /\ IVMod \in Nat /\ IVMod > 1 /\ IV \subseteq Nat
         /\ executed \in Seq(Nat) /\ Len(executed) \in Nat
         /\ DOMAIN executed = 1..Len(executed)
<1>1. Len(sealed) \in Nat /\ Len(executed) \in Nat /\ DOMAIN executed = 1..Len(executed)
  BY LenProperties DEF TypeOK, HostTypes, ChipTypes
<1>2. QED
  BY <1>1, L3Assumption DEF TypeOK, HostTypes, ChipTypes, IV, call

\* The nonce of a counter of more than one value moves on.
LEMMA IVMoves ==
  ASSUME NEW iv \in IV
  PROVE  l3IncrementIV(iv) # iv
<1>1. iv \in Nat /\ iv < IVMod /\ IVMod \in Nat /\ IVMod > 1
  BY L3Assumption DEF IV
<1>2. CASE iv + 1 < IVMod
  BY <1>1, <1>2, IVCounts
<1>3. CASE iv + 1 = IVMod
  <2>1. ASSUME NEW m \in Nat, m > 1 PROVE m % m = 0
    BY <2>1, SMT
  <2>2. l3IncrementIV(iv) = 0
    BY <1>1, <1>3, <2>1 DEF l3IncrementIV
  <2>3. QED
    BY <1>1, <1>3, <2>2
<1>4. QED
  BY <1>1, <1>2, <1>3

\* The chip carries out the command in flight, whose nonce is the one before
\* the host's next.
LEMMA Executing ==
  ASSUME TypeOK, RequestInv, ChipInv, cur.id = "ENCRYPTED_CMD", ChipExecutes(cur)
  PROVE  /\ req = cur /\ op = "encrypt" /\ cur.call = call
         /\ chip.key # NoKey /\ cur.key = chip.key /\ session.key = chip.key
         /\ cur.iv = chip.ivcmd
         /\ call \in DOMAIN sealed /\ sealed[call].key = cur.key /\ sealed[call].iv = cur.iv
         /\ chip'.key = chip.key /\ chip'.ivcmd = chip'.ivres /\ chip'.ivcmd # chip.ivcmd
         /\ etEph' = etEph /\ executed' = Append(executed, call)
         /\ \A i \in DOMAIN executed : executed[i] # call
         /\ Len(sealed) < IVMod =>
              chip'.ivcmd = session.ivcmd /\ session.ivcmd = chip.ivcmd + 1
<1>1. cur = req
  BY DEF RequestInv, Resend
<1>2. ChipOpens(req) /\ InFlight(req)
  BY <1>1 DEF ChipExecutes, RequestInv
<1>3. /\ req.call = call /\ req.key = session.key /\ op = "encrypt"
      /\ req.key = chip.key /\ req.iv = chip.ivcmd /\ chip.key # NoKey
      /\ call \in DOMAIN sealed /\ sealed[call].key = req.key /\ sealed[call].iv = req.iv
      /\ \A i \in DOMAIN executed : executed[i] # call
      /\ Len(sealed) < IVMod => session.ivcmd = chip.ivcmd + 1
  BY <1>1, <1>2 DEF InFlight, ChipOpens
<1>4. chip' = [chip EXCEPT !.ivcmd = l3IncrementIV(@), !.ivres = l3IncrementIV(@)]
  BY DEF ChipExecutes
<1>5. /\ chip'.key = chip.key
      /\ chip'.ivcmd = l3IncrementIV(chip.ivcmd)
      /\ chip'.ivres = l3IncrementIV(chip.ivres)
  BY <1>4 DEF TypeOK, ChipTypes
<1>6. chip'.ivcmd = chip'.ivres /\ chip'.ivcmd # chip.ivcmd
  BY <1>5, IVMoves, Numbers DEF ChipInv
<1>7. Len(sealed) < IVMod => l3IncrementIV(chip.ivcmd) = chip.ivcmd + 1
  <2>1. session.ivcmd < IVMod /\ chip.ivcmd \in Nat
    BY Numbers DEF IV
  <2>2. QED
    BY <1>3, <2>1, IVCounts
<1>8. QED
  BY <1>1, <1>3, <1>5, <1>6, <1>7 DEF ChipExecutes

\* The types of the data in frames.
LEMMA DataFields ==
  ASSUME NEW d \in Data
  PROVE  /\ d.id = "HANDSHAKE" => d.key \in Key
         /\ d.id = "RESULT" => d.key \in Key /\ d.iv \in IV /\ d.call \in Nat
<1>1. d.id \in Plain \union {"NONE", "DAMAGED", "ACK", "PART", "CERT", "SESSION_ABORT"} =>
        d.id \notin {"HANDSHAKE", "RESULT"}
  BY L3Assumption
<1>2. QED
  BY <1>1 DEF Data

\* What was known of data stays true whatever the chip does.
LEMMA KnownStays ==
  ASSUME TypeOK, RequestInv, ChipInv, ChipStep, UNCHANGED <<eph, sealed>>,
         NEW d \in Data, Known(d)
  PROVE  Known(d)'
<1>1. /\ d.id = "HANDSHAKE" => d.key \in Key
      /\ d.id = "RESULT" => d.key \in Key /\ d.iv \in Nat
  BY DataFields, Numbers
<1>2. CASE UNCHANGED chipside
  BY <1>2 DEF chipside, Known
<1>3. CASE cur.id = "ENCRYPTED_CMD" /\ ChipExecutes(cur)
  <2>1. \A i \in DOMAIN executed : i \in DOMAIN executed' /\ executed'[i] = executed[i]
    BY <1>3, Executing, Numbers
  <2>2. Len(sealed) < IVMod => chip.ivres < chip'.ivres
    BY <1>3, Executing, Numbers DEF ChipInv
  <2>3. /\ chip.ivres \in Nat /\ (Len(sealed) < IVMod => chip'.ivres \in Nat)
        /\ chip'.key = chip.key /\ etEph' = etEph
    BY <1>3, Executing, Numbers
  <2>4. QED
    BY <1>1, <2>1, <2>2, <2>3 DEF Known
<1>4. CASE cur.id = "HANDSHAKE" /\ ChipHandshakes(cur)
  <2>1. chip'.key.chip = etEph + 1 /\ etEph' = etEph + 1 /\ executed' = executed
    BY <1>4 DEF ChipHandshakes
  <2>2. d.id = "RESULT" => d.key.chip < chip'.key.chip /\ d.key.chip <= etEph'
    <3>1. d.id = "RESULT" => d.key.chip \in Nat /\ d.key.chip <= etEph
      BY <1>1 DEF Key, Known
    <3>2. QED
      BY <2>1, <3>1, Numbers
  <2>3. d.id = "RESULT" => d.key # chip'.key
    BY <1>1, <2>1, <2>2, Numbers, SMTT(30) DEF Key
  <2>4. QED
    BY <2>1, <2>2, <2>3 DEF Known
<1>5. CASE chip' = NoChipSession /\ UNCHANGED <<etEph, executed>>
  BY <1>5 DEF NoChipSession, Known
<1>6. QED
  BY <1>2, <1>3, <1>4, <1>5 DEF ChipStep

\* And what was known of frames.
LEMMA KnownFramesStay ==
  ASSUME \A d \in Data : Known(d) => Known(d)'
  PROVE  KnownFrames \subseteq KnownFrames'
<1>1. \A f \in Frames : f.data \in Data
  BY DEF Frames
<1>2. QED
  BY <1>1 DEF KnownFrames

\* The data that the chip gives in this step are known after it.
LEMMA GivenKnown ==
  ASSUME TypeOK, RequestInv, ChipInv, UNCHANGED <<eph, sealed>>,
         NEW d \in Data, Given(d)
  PROVE  Known(d)'
<1>1. CASE d.id \notin {"HANDSHAKE", "RESULT"}
  BY <1>1 DEF Known
<1>2. CASE d.id = "HANDSHAKE" /\ cur.id = "HANDSHAKE"
           /\ d.key = [host |-> cur.eph, chip |-> etEph']
  <2>1. cur = req
    BY <1>2 DEF RequestInv, Resend
  <2>2. d.key.host = eph
    BY <1>2, <2>1 DEF RequestInv
  <2>3. QED
    BY <1>2, <2>2, Numbers DEF Known
<1>3. CASE d.id = "RESULT" /\ cur.id = "ENCRYPTED_CMD" /\ ChipExecutes(cur)
           /\ d.key = chip.key /\ d.iv = chip.ivres /\ d.call = cur.call
  <2>1. /\ executed' = Append(executed, call) /\ cur.call = call
        /\ chip'.key = chip.key /\ etEph' = etEph
        /\ call \in DOMAIN sealed /\ sealed[call].key = d.key /\ sealed[call].iv = d.iv
        /\ Len(sealed) < IVMod => chip.ivres < chip'.ivres
    BY <1>3, Executing, Numbers DEF ChipInv
  <2>2. \E i \in DOMAIN executed' : executed'[i] = d.call
    <3>1. Len(executed) + 1 \in DOMAIN executed' /\ executed'[Len(executed) + 1] = call
      BY <2>1, Numbers
    <3>2. QED
      BY <1>3, <2>1, <3>1
  <2>3. QED
    BY <1>3, <2>1, <2>2 DEF Known, ChipInv
<1>4. QED
  BY <1>1, <1>2, <1>3 DEF Given

\* And they are of the running method.
LEMMA GivenCurrent ==
  ASSUME TypeOK, RequestInv, ChipInv, NEW d \in Data, Given(d), UNCHANGED <<host, req, cur>>
  PROVE  Current(d)'
<1>1. CASE d.id \notin {"HANDSHAKE", "RESULT"}
  BY <1>1 DEF Current
<1>2. CASE d.id = "HANDSHAKE" /\ d.key = [host |-> cur.eph, chip |-> etEph']
  BY <1>2 DEF Current
<1>3. CASE d.id = "RESULT" /\ cur.id = "ENCRYPTED_CMD" /\ ChipExecutes(cur)
           /\ d.call = cur.call
  BY <1>3, Executing DEF Current, host, call
<1>4. QED
  BY <1>1, <1>2, <1>3 DEF Given

\* Frames with such data.
LEMMA GivenFramesFit ==
  ASSUME TypeOK, RequestInv, ChipInv, UNCHANGED <<host, req, cur>>
  PROVE  GivenFrames \subseteq KnownFrames' /\ GivenFrames \subseteq CurrentFrames'
<1>1. \A f \in Frames : f.data \in Data
  BY DEF Frames
<1>2. QED
  BY <1>1, GivenKnown, GivenCurrent DEF GivenFrames, KnownFrames, CurrentFrames, host

-----------------------------------------------------------------------------
\* l1Write.

\* What a write leaves alone, and where it leads.
LEMMA WriteLeads ==
  ASSUME TypeOK, RequestInv, Write
  PROVE  /\ UNCHANGED <<host, req, cur>>
         /\ l2pc = "send" /\ op # "idle" /\ op # "decrypt"
         /\ \/ l2pc' = "read"
            \/ l2pc' = "returned" /\ got'.err # "nil"
         /\ ChipTakes \/ (ChipMisses /\ (l2pc' = "read" => unseen' = TRUE))
         /\ unseen' = unseen \/ unseen' = TRUE
         /\ ChipStep
<1>1. ChipTakes \/ (ChipMisses /\ (Written => unseen' = TRUE) /\ (Written \/ WriteFails))
  BY DEF Write, Written, WriteFails, L2Return
<1>2. Written \/ WriteFails
  BY DEF Write
<1>3. /\ UNCHANGED <<req, cur>> /\ l2pc = "send"
      /\ \/ l2pc' = "read" /\ Written
         \/ l2pc' = "returned" /\ got'.err # "nil"
  BY <1>2 DEF Written, WriteFails, Writing, L2Return
<1>4. op # "idle" /\ op # "decrypt"
  BY <1>3 DEF TypeOK, HostTypes, RequestInv
<1>5. ChipStep
  BY <1>1, ChipSteps
<1>6. QED
  BY <1>1, <1>3, <1>4, <1>5 DEF Write

\* A write keeps the invariants about requests, commands and sessions.
LEMMA WriteSession ==
  ASSUME NonceInv, SessionInv, Write
  PROVE  /\ RequestInv' /\ ExecutedInv' /\ ChipInv'
         /\ KeyIsLatest' /\ NoncesOrdered' /\ AnswerIsForThisCall'
<1> USE DEF NonceInv, SessionInv
<1>1. /\ UNCHANGED <<op, session, ret, eph, sealed, req, cur, call>>
      /\ op # "idle" /\ op # "decrypt" /\ ChipStep
  BY WriteLeads DEF host, call
<1>2. AnswerIsForThisCall'
  BY <1>1 DEF AnswerIsForThisCall
<1>3. CASE UNCHANGED chipside
  BY <1>1, <1>2, <1>3 DEF chipside, RequestInv, InFlight, ChipOpens, ExecutedInv, AtMostOnce,
       Injective, ChipInv, KeyIsLatest, NoncesOrdered
<1>4. CASE cur.id = "ENCRYPTED_CMD" /\ ChipExecutes(cur)
  <2>1. /\ req = cur /\ op = "encrypt" /\ cur.iv = chip.ivcmd /\ session.key = chip.key
        /\ chip'.key = chip.key /\ chip'.ivcmd = chip'.ivres /\ chip'.ivcmd # chip.ivcmd
        /\ etEph' = etEph /\ executed' = Append(executed, call) /\ chip.key # NoKey
        /\ \A i \in DOMAIN executed : executed[i] # call
        /\ Len(sealed) < IVMod =>
              chip'.ivcmd = session.ivcmd /\ session.ivcmd = chip.ivcmd + 1
    BY <1>4, Executing
  <2>2. RequestInv'
    BY <1>1, <2>1 DEF RequestInv, InFlight, ChipOpens
  <2>3. ExecutedInv'
    <3>1. /\ DOMAIN executed' = 1..(Len(executed) + 1)
          /\ \A i \in DOMAIN executed : executed'[i] = executed[i] /\ i # Len(executed) + 1
          /\ executed'[Len(executed) + 1] = call
          /\ \A i \in DOMAIN executed' : i \in DOMAIN executed \/ i = Len(executed) + 1
      BY <2>1, Numbers
    <3>2. \A i \in DOMAIN executed' : executed'[i] <= call'
      BY <1>1, <3>1, Numbers, SMTT(30) DEF ExecutedInv
    <3>3. Injective(executed)'
      BY <2>1, <3>1 DEF ExecutedInv, AtMostOnce, Injective
    <3>4. QED
      BY <3>2, <3>3 DEF ExecutedInv, AtMostOnce
  <2>4. ChipInv'
    BY <1>1, <2>1 DEF ChipInv
  <2>5. KeyIsLatest'
    BY <1>1, <2>1 DEF KeyIsLatest
  <2>6. NoncesOrdered'
    <3> SUFFICES ASSUME Len(sealed) < IVMod
                 PROVE  chip'.ivcmd <= session.ivcmd /\ session.ivres <= chip'.ivres
      BY <1>1, <2>1 DEF NoncesOrdered
    <3>1. session.ivres <= chip.ivres /\ chip.ivres = chip.ivcmd
      BY <2>1 DEF NoncesOrdered
    <3>2. QED
      BY <2>1, <3>1, Numbers
  <2>7. QED
    BY <1>2, <2>2, <2>3, <2>4, <2>5, <2>6
<1>5. CASE cur.id = "HANDSHAKE" /\ ChipHandshakes(cur)
  <2>1. req = cur /\ op = "handshake" /\ req.eph = eph
    BY <1>5 DEF RequestInv, Resend
  <2>2. /\ chip' = [key |-> [host |-> eph, chip |-> etEph + 1], ivcmd |-> 0, ivres |-> 0]
        /\ etEph' = etEph + 1 /\ executed' = executed
    BY <1>5, <2>1 DEF ChipHandshakes
  <2>3. session.status = "sessionOff" /\ session.key = NoKey
    BY <2>1 DEF HandshakeIsNew, ChipInv
  <2>4. RequestInv' /\ ExecutedInv'
    BY <1>1, <1>5, <2>1, <2>2 DEF RequestInv, InFlight, ExecutedInv, AtMostOnce, Injective
  <2>5. ChipInv' /\ KeyIsLatest'
    BY <1>1, <2>2, <2>3, Numbers DEF ChipInv, KeyIsLatest
  <2>6. session'.key # chip'.key
    BY <1>1, <2>2, <2>3, Numbers DEF NoKey
  <2>7. QED
    BY <1>2, <2>4, <2>5, <2>6 DEF NoncesOrdered
<1>6. CASE chip' = NoChipSession /\ UNCHANGED <<etEph, executed>>
  <2>1. chip'.key = NoKey
    BY <1>6 DEF NoChipSession
  <2>2. QED
    BY <1>1, <1>2, <1>6, <2>1, Numbers
       DEF RequestInv, InFlight, ChipOpens, ExecutedInv, AtMostOnce, Injective, ChipInv,
           KeyIsLatest, NoncesOrdered, NoChipSession, NoKey
<1>7. QED
  BY <1>1, <1>3, <1>4, <1>5, <1>6 DEF ChipStep

\* And those about the frames in the register.
LEMMA WriteFrames ==
  ASSUME NonceInv, SessionInv, Write
  PROVE  KnownInv' /\ CurrentInv'
<1> USE DEF NonceInv, SessionInv
<1>1. /\ UNCHANGED <<host, req, cur>>
      /\ UNCHANGED <<op, session, eph, sealed, req, cur, call>>
      /\ l2pc = "send" /\ op # "idle" /\ op # "decrypt" /\ ChipStep
      /\ \/ l2pc' = "read"
         \/ l2pc' = "returned" /\ got'.err # "nil"
      /\ ChipTakes \/ (ChipMisses /\ (l2pc' = "read" => unseen' = TRUE))
      /\ unseen' = unseen \/ unseen' = TRUE
  BY WriteLeads DEF host, call
<1>2. GivenFrames \subseteq KnownFrames' /\ GivenFrames \subseteq CurrentFrames'
  BY <1>1, GivenFramesFit
<1>3. KnownFrames \subseteq KnownFrames'
  BY <1>1, KnownStays, KnownFramesStay
<1>4. out \in Seq(KnownFrames') /\ kept \in Seq(KnownFrames')
  BY <1>3, SeqMonotonic DEF KnownInv
<1>5. out' \in Seq(KnownFrames') /\ kept' \in Seq(KnownFrames')
  BY <1>1, <1>2, <1>4, TakesIn DEF ChipMisses, SeesNothing, link
<1>6. KnownInv'
  BY <1>1, <1>5 DEF KnownInv
<1>7. CurrentInv'
  <2> SUFFICES ASSUME op \in {"handshake", "encrypt"}, l2pc' = "read"
               PROVE  /\ out' \in Seq(CurrentFrames')
                      /\ kept' \in Seq(CurrentFrames') \/ (out' # <<>> /\ Head(out') # GenErr)
    BY <1>1 DEF CurrentInv
  <2>1. CASE ChipTakes /\ cur # Resend
    BY <1>2, <2>1, TakesIn
  <2>2. CASE ChipTakes /\ cur = Resend
    <3>1. cur.id \notin {"HANDSHAKE", "ENCRYPTED_CMD"}
      BY <2>2 DEF Resend
    <3>2. etEph' = etEph
      BY <1>1, <3>1 DEF ChipStep, chipside
    <3>3. CurrentFrames \subseteq CurrentFrames'
      BY <1>1, <3>2 DEF CurrentFrames, Current, TypeOK
    <3>4. out \in Seq(CurrentFrames) /\ kept \in Seq(CurrentFrames)
      BY <1>1, <2>2 DEF CurrentInv
    <3>5. out \in Seq(CurrentFrames') /\ kept \in Seq(CurrentFrames')
      BY <3>3, <3>4, SeqMonotonic
    <3>6. QED
      BY <1>2, <2>2, <3>5, TakesIn
  <2>3. CASE ChipMisses /\ unseen' = TRUE
    <3>1. UNCHANGED <<out, kept, etEph>>
      BY <2>3 DEF ChipMisses, SeesNothing, link, chipside
    <3>2. CASE op = "handshake"
      <4>1. CurrentFrames \subseteq CurrentFrames'
        BY <1>1, <3>1 DEF CurrentFrames, Current, TypeOK
      <4>2. out \in Seq(CurrentFrames) /\ kept \in Seq(CurrentFrames)
        BY <1>1, <3>2 DEF CurrentInv
      <4>3. out \in Seq(CurrentFrames') /\ kept \in Seq(CurrentFrames')
        BY <4>1, <4>2, SeqMonotonic
      <4>4. QED
        BY <3>1, <4>3
    <3>3. CASE op = "encrypt"
      <4>1. KnownFrames' \subseteq CurrentFrames'
        BY <1>1, <2>3, <3>3 DEF KnownFrames, CurrentFrames, Current
      <4>2. QED
        BY <1>5, <4>1, SeqMonotonic
    <3>4. QED
      BY <3>2, <3>3
  <2>4. QED
    BY <1>1, <2>1, <2>2, <2>3
<1>8. QED
  BY <1>6, <1>7

-----------------------------------------------------------------------------
\* l1Read.

\* Where the frame that is read leads.
LEMMA ReadFrameLeads ==
  ASSUME NEW f, ReadFrame(f)
  PROVE  /\ UNCHANGED req
         /\ \/ l2pc' = "panicked" /\ cur' = cur
            \/ l2pc' = "returned" /\ cur' = cur /\ (got'.err = "nil" => got'.data = f.data)
            \/ l2pc = "read" /\ l2pc' = "send" /\ cur' \in {req, Resend}
<1> DEFINE err == l2FrameCheck(f)
<1> HIDE DEF err
<1>1. /\ \/ l2pc' = "panicked" /\ UNCHANGED <<req, cur, tries, got>>
         \/ L2Return("nil", f.data) /\ UNCHANGED <<req, cur, tries>>
         \/ l2pc = "read" /\ Retry(err)
         \/ err # "nil" /\ L2Return(err, None) /\ UNCHANGED <<req, cur, tries>>
  BY DEF ReadFrame, Reading, err
<1>2. QED
  BY <1>1 DEF L2Return, Retry

\* A read leaves the methods, the requests and the chip's session alone.
LEMMA ReadLeads ==
  ASSUME TypeOK, RequestInv, Read
  PROVE  /\ UNCHANGED <<host, chipside, unseen, req>>
         /\ cur' \in {req, Resend}
         /\ Gives /\ l2pc \in {"read", "receive"} /\ op # "idle"
         /\ \/ l2pc' = "panicked"
            \/ /\ l2pc' = "returned"
               /\ got'.err = "nil" => \E f \in OnWire(Head(out)) : got'.data = f.data
            \/ l2pc = "read" /\ l2pc' = "send"
<1>1. UNCHANGED <<host, chipside, unseen>> /\ Gives
  BY DEF Read
<1>2. \/ \E f \in OnWire(Head(out)) : ReadFrame(f)
      \/ ReadFails("ErrL1SPI")
  BY DEF Read
<1>3. l2pc \in {"read", "receive"} /\ op # "idle"
  BY <1>2 DEF ReadFrame, ReadFails, Reading, TypeOK, HostTypes
<1>4. CASE \E f \in OnWire(Head(out)) : ReadFrame(f)
  BY <1>1, <1>3, <1>4, ReadFrameLeads DEF RequestInv
<1>5. CASE ReadFails("ErrL1SPI")
  BY <1>1, <1>3, <1>5 DEF ReadFails, L2Return, RequestInv
<1>6. QED
  BY <1>2, <1>4, <1>5

\* A read keeps the invariants.
LEMMA ReadSession ==
  ASSUME NonceInv, SessionInv, Read
  PROVE  SessionInv'
<1> USE DEF NonceInv, SessionInv
<1>1. /\ UNCHANGED <<op, session, ret, eph, sealed, call, chip, etEph, executed, unseen, req>>
      /\ cur' \in {req, Resend}
      /\ Gives /\ l2pc \in {"read", "receive"} /\ op # "idle"
      /\ \/ l2pc' = "panicked"
         \/ /\ l2pc' = "returned"
            /\ got'.err = "nil" => \E f \in OnWire(Head(out)) : got'.data = f.data
         \/ l2pc = "read" /\ l2pc' = "send"
  BY ReadLeads DEF host, chipside, call
<1>2. RequestInv'
  BY <1>1 DEF RequestInv, InFlight, ChipOpens
<1>3. ExecutedInv' /\ ChipInv' /\ KeyIsLatest' /\ NoncesOrdered' /\ AnswerIsForThisCall'
  BY <1>1 DEF ExecutedInv, AtMostOnce, Injective, ChipInv, KeyIsLatest, NoncesOrdered,
       AnswerIsForThisCall
<1>4. \A d : Known(d) <=> Known(d)'
  BY <1>1 DEF Known
<1>5. \A d : Current(d) <=> Current(d)'
  BY <1>1 DEF Current
<1>6. KnownFrames' = KnownFrames /\ CurrentFrames' = CurrentFrames
  BY <1>4, <1>5 DEF KnownFrames, CurrentFrames
<1>7. /\ Head(out) \in KnownFrames
      /\ out' \in Seq(KnownFrames) /\ kept' \in Seq(KnownFrames)
  BY <1>1, GivesIn DEF KnownInv
<1>8. l2pc' = "returned" /\ got'.err = "nil" =>
        got'.data = Head(out).data \/ got'.data = [id |-> "DAMAGED"]
  BY <1>1, <1>7, OnWireData DEF KnownFrames
<1>9. KnownInv'
  <2>1. l2pc' = "returned" /\ got'.err = "nil" => Known(got.data)'
    BY <1>1, <1>7, <1>8 DEF Known, KnownFrames
  <2>2. QED
    BY <1>6, <1>7, <2>1 DEF KnownInv
<1>10. CurrentInv'
  <2> SUFFICES ASSUME op \in {"handshake", "encrypt", "decrypt"}
               PROVE  CurrentInv'
    BY <1>1 DEF CurrentInv
  <2>1. out \in Seq(CurrentFrames)
    BY <1>1 DEF CurrentInv
  <2>2. Head(out) \in CurrentFrames /\ out' \in Seq(CurrentFrames)
    BY <1>1, <2>1, GivesIn
  <2>3. l2pc = "read" => kept' \in Seq(CurrentFrames)
    BY <1>1, <2>1, GivesIn DEF CurrentInv
  <2>4. l2pc' = "returned" /\ got'.err = "nil" => Current(got.data)'
    BY <1>1, <1>8, <2>2 DEF Current, CurrentFrames
  <2>5. QED
    BY <1>1, <1>6, <2>2, <2>3, <2>4 DEF CurrentInv
<1>11. QED
  BY <1>2, <1>3, <1>9, <1>10

\* So does an L2 call that returns without an exchange.
LEMMA StopSession ==
  ASSUME NonceInv, SessionInv, ReadNothing \/ Stop
  PROVE  SessionInv'
<1> USE DEF NonceInv, SessionInv
<1>1. /\ UNCHANGED <<op, session, ret, eph, sealed, call, chip, etEph, executed, unseen>>
      /\ UNCHANGED <<out, kept, req, cur>>
      /\ l2pc \in {"send", "read", "receive"}
      /\ l2pc' = "returned" /\ got'.err # "nil"
  BY DEF ReadNothing, Stop, ReadFails, Exhausted, TooLong, Reading, L2Return, host, chipside,
         link, call
<1>2. RequestInv'
  BY <1>1 DEF RequestInv, InFlight, ChipOpens
<1>3. op # "idle"
  BY <1>1 DEF TypeOK, HostTypes
<1>4. ExecutedInv' /\ ChipInv' /\ KeyIsLatest' /\ NoncesOrdered' /\ AnswerIsForThisCall'
  BY <1>1, <1>3 DEF ExecutedInv, AtMostOnce, Injective, ChipInv, KeyIsLatest, NoncesOrdered,
       AnswerIsForThisCall
<1>5. \A d : Known(d) <=> Known(d)'
  BY <1>1 DEF Known
<1>6. KnownFrames' = KnownFrames
  BY <1>5 DEF KnownFrames
<1>7. KnownInv' /\ CurrentInv'
  BY <1>1, <1>6 DEF KnownInv, CurrentInv
<1>8. QED
  BY <1>2, <1>4, <1>7

\* And a chip that restarts: it has no session and no frames.
LEMMA RestartSession ==
  ASSUME NonceInv, SessionInv, ChipRestarts
  PROVE  SessionInv'
<1> USE DEF NonceInv, SessionInv
<1>1. /\ UNCHANGED <<op, session, ret, eph, sealed, call, etEph, executed, unseen>>
      /\ UNCHANGED <<l2pc, got, req, cur>>
      /\ out' = <<>> /\ kept' = <<>>
      /\ chip' = NoChipSession
  BY DEF ChipRestarts, Resets, host, l2vars, call
<1>2. chip'.key = NoKey /\ chip'.ivcmd = 0 /\ chip'.ivres = 0
  BY <1>1 DEF NoChipSession
<1>3. RequestInv'
  BY <1>1, <1>2 DEF RequestInv, InFlight, ChipOpens
<1>4. ExecutedInv' /\ KeyIsLatest' /\ NoncesOrdered' /\ AnswerIsForThisCall'
  BY <1>1, <1>2 DEF ExecutedInv, AtMostOnce, Injective, KeyIsLatest, NoncesOrdered,
       AnswerIsForThisCall
<1>5. ChipInv'
  BY <1>1, <1>2, Numbers DEF ChipInv, NoKey
<1>6. \A d : (Known(d) => Known(d)') /\ (Current(d) <=> Current(d)')
  BY <1>1, <1>2 DEF Known, Current
<1>7. KnownInv' /\ CurrentInv'
  BY <1>1, <1>6 DEF KnownInv, CurrentInv
<1>8. QED
  BY <1>3, <1>4, <1>5, <1>7

-----------------------------------------------------------------------------
\* The methods of Device.

\* What is known of frames stays known when methods begin and go on.
LEMMA MethodKnown ==
  ASSUME NonceInv, KnownInv, UNCHANGED <<link, chipside>>,
         eph' \in {eph, eph + 1}, Len(sealed') \in {Len(sealed), Len(sealed) + 1},
         \A i \in DOMAIN sealed : i \in DOMAIN sealed' /\ sealed'[i] = sealed[i],
         l2pc' # "returned"
  PROVE  KnownInv'
<1>1. /\ UNCHANGED <<out, kept, chip, etEph, executed>>
      /\ eph \in Nat /\ Len(sealed) \in Nat /\ IVMod \in Nat
  BY Numbers DEF NonceInv, link, chipside
<1>2. ASSUME NEW d \in Data, Known(d) PROVE Known(d)'
  <2>1. d.id = "HANDSHAKE" => d.key.host \in Nat
    BY DataFields DEF Key
  <2>2. QED
    BY <1>1, <1>2, <2>1 DEF Known
<1>3. KnownFrames \subseteq KnownFrames'
  BY <1>2, KnownFramesStay
<1>4. QED
  BY <1>1, <1>3, SeqMonotonic DEF KnownInv

\* A method that returns, with the session as it was or with none, and without
\* a result.
LEMMA ReturnSession ==
  ASSUME NonceInv, SessionInv, UNCHANGED <<link, chipside, eph, sealed, unseen>>,
         NEW method, NEW err, NEW answer, Return(method, err, answer),
         method # "command" \/ err # "nil",
         session' = session \/ session' = NoSession
  PROVE  SessionInv'
<1> USE DEF NonceInv, SessionInv
<1>1. /\ op' = "idle" /\ l2pc' = "idle" /\ req' = Resend /\ cur' = Resend
      /\ UNCHANGED <<chip, etEph, executed, eph, sealed, call>>
      /\ ret'.op # "command" \/ ret'.err # "nil"
  BY DEF Return, L2Done, chipside, call
<1>2. RequestInv'
  BY <1>1 DEF RequestInv, InFlight, Resend
<1>3. ExecutedInv' /\ AnswerIsForThisCall' /\ CurrentInv'
  BY <1>1 DEF ExecutedInv, AtMostOnce, Injective, AnswerIsForThisCall, CurrentInv
<1>4. KnownInv'
  BY <1>1, MethodKnown
<1>5. /\ session'.status = "sessionOn" => session' = session
      /\ session' = session \/ session'.key = NoKey
      /\ session'.status = "sessionOff" => session'.key = NoKey
  BY DEF NoSession, ChipInv
<1>6. ChipInv' /\ KeyIsLatest' /\ NoncesOrdered'
  BY <1>1, <1>5 DEF ChipInv, KeyIsLatest, NoncesOrdered
<1>7. QED
  BY <1>2, <1>3, <1>4, <1>6

\* A method that sends a request that has no part in a session.
LEMMA SendSession ==
  ASSUME NonceInv, SessionInv, UNCHANGED <<link, chipside, session, eph, sealed, unseen>>,
         NEW r, SendRecv(r), r.id \notin {"HANDSHAKE", "ENCRYPTED_CMD"},
         op' \in {"cert", "plain", "abort"}
  PROVE  SessionInv'
<1> USE DEF NonceInv, SessionInv
<1>1. /\ l2pc' = "send" /\ req' = r /\ cur' = r
      /\ UNCHANGED <<chip, etEph, executed, session, eph, sealed, call>>
  BY DEF SendRecv, chipside, call
<1>2. RequestInv'
  BY <1>1 DEF RequestInv, InFlight
<1>3. ExecutedInv' /\ AnswerIsForThisCall' /\ CurrentInv'
  BY <1>1 DEF ExecutedInv, AtMostOnce, Injective, AnswerIsForThisCall, CurrentInv
<1>4. KnownInv'
  BY <1>1, MethodKnown
<1>5. ChipInv' /\ KeyIsLatest' /\ NoncesOrdered'
  BY <1>1 DEF ChipInv, KeyIsLatest, NoncesOrdered
<1>6. QED
  BY <1>2, <1>3, <1>4, <1>5

\* A command is sealed: its call is new, and nothing of it is in the register.
LEMMA EncryptSession ==
  ASSUME NonceInv, SessionInv, NEW c \in Commands, Encrypt(c), UNCHANGED <<link, chipside, unseen>>
  PROVE  SessionInv'
<1> USE DEF NonceInv, SessionInv
<1> DEFINE ct == [id |-> "ENCRYPTED_CMD", len |-> c.len + L3Overhead, key |-> session.key,
                  iv |-> session.ivcmd, call |-> call + 1, rsp |-> c.rsp]
<1>1. /\ op' = "encrypt" /\ session.status = "sessionOn"
      /\ sealed' = Append(sealed, [key |-> ct.key, iv |-> ct.iv, len |-> ct.len])
      /\ session' = [session EXCEPT !.ivcmd = l3IncrementIV(@)]
      /\ SendRecv(ct)
      /\ UNCHANGED eph
  BY DEF Encrypt
<1>2. /\ l2pc' = "send" /\ req' = ct /\ cur' = ct
      /\ UNCHANGED <<chip, etEph, executed>>
  BY <1>1 DEF SendRecv, chipside
<1>3. /\ Len(sealed') = Len(sealed) + 1 /\ call' = call + 1
      /\ \A i \in DOMAIN sealed : i \in DOMAIN sealed' /\ sealed'[i] = sealed[i]
      /\ call + 1 \in DOMAIN sealed'
      /\ sealed'[call + 1].key = session.key /\ sealed'[call + 1].iv = session.ivcmd
  BY <1>1, Numbers DEF TypeOK, HostTypes, call
<1>4. /\ session'.status = "sessionOn" /\ session'.key = session.key
      /\ session'.ivres = session.ivres
      /\ session'.ivcmd = l3IncrementIV(session.ivcmd)
  BY <1>1 DEF TypeOK, HostTypes
<1>5. Len(sealed') < IVMod => session'.ivcmd = session.ivcmd + 1
  <2>1. Len(sealed') < IVMod => session.ivcmd <= Len(sealed)
    BY <1>1, <1>3, Numbers DEF NonceIsNew
  <2>2. Len(sealed') < IVMod => session.ivcmd \in Nat /\ session.ivcmd + 1 < IVMod
    BY <1>3, <2>1, Numbers
  <2>3. QED
    BY <1>4, <2>2, IVCounts
<1>6. RequestInv'
  <2>1. \A i \in DOMAIN executed : executed[i] # call + 1
    BY Numbers DEF ExecutedInv
  <2>2. ct.id = "ENCRYPTED_CMD" /\ ct.call = call + 1 /\ ct.key = session.key
        /\ ct.iv = session.ivcmd
    OBVIOUS
  <2> HIDE DEF ct
  <2>3. InFlight(req)'
    BY <1>1, <1>2, <1>3, <1>4, <1>5, <2>1, <2>2 DEF InFlight
  <2>4. QED
    BY <1>1, <1>2, <2>2, <2>3 DEF RequestInv
<1>7. ExecutedInv'
  <2>1. \A i \in DOMAIN executed : executed[i] <= call + 1
    BY Numbers DEF ExecutedInv
  <2>2. QED
    BY <1>2, <1>3, <2>1 DEF ExecutedInv, AtMostOnce, Injective
<1>8. AnswerIsForThisCall'
  BY <1>1 DEF AnswerIsForThisCall
<1>9. CurrentInv'
  <2>1. cur' # Resend
    BY <1>2 DEF Resend
  <2>2. QED
    BY <1>1, <1>2, <2>1 DEF CurrentInv
<1>10. KnownInv'
  BY <1>1, <1>2, <1>3, MethodKnown
<1>11. ChipInv' /\ KeyIsLatest'
  BY <1>1, <1>2, <1>4 DEF ChipInv, KeyIsLatest
<1>12. NoncesOrdered'
  <2> SUFFICES ASSUME session.key = chip.key, chip.key # NoKey, Len(sealed') < IVMod
               PROVE  chip.ivcmd <= session'.ivcmd /\ session.ivres <= chip.ivres
                      /\ chip.ivcmd = chip.ivres
    BY <1>2, <1>4 DEF NoncesOrdered
  <2>1. Len(sealed) < IVMod
    BY <1>3, Numbers
  <2>2. QED
    BY <1>5, <2>1, Numbers DEF NoncesOrdered
<1>13. QED
  BY <1>6, <1>7, <1>8, <1>9, <1>10, <1>11, <1>12


\* A handshake begins: no frame is about its key yet.
LEMMA HandshakeSession ==
  ASSUME NonceInv, SessionInv, Handshake, UNCHANGED <<link, chipside, unseen>>
  PROVE  SessionInv'
<1> USE DEF NonceInv, SessionInv
<1>1. /\ op' = "handshake" /\ session' = NoSession /\ eph' = eph + 1
      /\ l2pc' = "send" /\ req' = [id |-> "HANDSHAKE", len |-> 33, eph |-> eph + 1]
      /\ cur' = req'
      /\ UNCHANGED <<out, kept, chip, etEph, executed, sealed, call>>
  BY DEF Handshake, SendRecv, link, chipside, call
<1>2. RequestInv'
  BY <1>1 DEF RequestInv, InFlight
<1>3. ExecutedInv' /\ AnswerIsForThisCall'
  BY <1>1 DEF ExecutedInv, AtMostOnce, Injective, AnswerIsForThisCall
<1>4. KnownInv'
  BY <1>1, MethodKnown
<1>5. CurrentInv'
  <2>1. ASSUME NEW d \in Data, Known(d) PROVE Current(d)'
    <3>1. d.id = "HANDSHAKE" => d.key.host \in Nat /\ d.key.host <= eph
      BY <2>1, DataFields DEF Known, Key
    <3>2. d.id = "HANDSHAKE" => d.key.host # eph'
      BY <1>1, <3>1, Numbers
    <3>3. QED
      BY <1>1, <3>2 DEF Current
  <2>2. KnownFrames \subseteq CurrentFrames'
    <3>1. \A f \in Frames : f.data \in Data
      BY DEF Frames
    <3>2. QED
      BY <2>1, <3>1 DEF KnownFrames, CurrentFrames
  <2>3. out' \in Seq(CurrentFrames') /\ kept' \in Seq(CurrentFrames')
    BY <1>1, <2>2, SeqMonotonic DEF KnownInv
  <2>4. QED
    BY <1>1, <2>3 DEF CurrentInv
<1>6. ChipInv' /\ KeyIsLatest' /\ NoncesOrdered'
  <2>1. session'.status = "sessionOff" /\ session'.key = NoKey
    BY <1>1 DEF NoSession
  <2>2. chip.key.host \in Nat /\ chip.key.host # eph'
    BY <1>1, Numbers DEF ChipInv, Key
  <2>3. QED
    BY <1>1, <2>1, <2>2, Numbers DEF ChipInv, KeyIsLatest, NoncesOrdered
<1>7. QED
  BY <1>2, <1>3, <1>4, <1>5, <1>6

\* A session is established with the chip's last key, which the chip, if it
\* still has it, has not used.
LEMMA EstablishedSession ==
  ASSUME NonceInv, SessionInv, Established, UNCHANGED <<link, chipside>>
  PROVE  SessionInv'
<1> USE DEF NonceInv, SessionInv
<1>1. /\ op = "handshake" /\ l2pc = "returned"
      /\ got.err = "nil" /\ got.data.id = "HANDSHAKE" /\ got.data.key.host = eph
      /\ session' = [status |-> "sessionOn", key |-> got.data.key, ivcmd |-> 0, ivres |-> 0]
      /\ op' = "idle" /\ l2pc' = "idle" /\ req' = Resend /\ cur' = Resend
      /\ ret'.op = "SessionStart"
      /\ UNCHANGED <<chip, etEph, executed, eph, sealed, call>>
  BY DEF Established, HandshakeRsp, Return, L2Done, chipside, call
<1>2. got.data.key = [host |-> eph, chip |-> etEph]
  <2>1. got.data.key \in Key
    BY <1>1, DataFields DEF TypeOK, L2Types
  <2>2. got.data.key.chip = etEph
    BY <1>1 DEF CurrentInv, Current
  <2>3. QED
    BY <1>1, <2>1, <2>2 DEF Key
<1>3. RequestInv'
  BY <1>1 DEF RequestInv, InFlight, Resend
<1>4. ExecutedInv' /\ AnswerIsForThisCall' /\ CurrentInv' /\ KeyIsLatest'
  BY <1>1, <1>2 DEF ExecutedInv, AtMostOnce, Injective, AnswerIsForThisCall, CurrentInv,
       KeyIsLatest
<1>5. KnownInv'
  BY <1>1, MethodKnown
<1>6. ChipInv'
  BY <1>1 DEF ChipInv
<1>7. NoncesOrdered'
  <2>1. session'.key = chip.key => chip.ivcmd = 0 /\ chip.ivres = 0
    BY <1>1, <1>2 DEF ChipInv
  <2>2. QED
    BY <1>1, <2>1 DEF NoncesOrdered
<1>8. QED
  BY <1>3, <1>4, <1>5, <1>6, <1>7

\* l3EncryptSend has returned nil, and the response is read.
LEMMA SentSession ==
  ASSUME NonceInv, SessionInv, Sent, got.err = "nil", UNCHANGED <<link, chipside, unseen>>
  PROVE  SessionInv'
<1> USE DEF NonceInv, SessionInv
<1>1. /\ op = "encrypt" /\ l2pc = "returned" /\ got.err = "nil"
      /\ op' = "decrypt" /\ l2pc' = "receive" /\ req' = Resend /\ cur' = Resend
      /\ UNCHANGED <<out, kept, chip, etEph, executed, session, eph, sealed, call, unseen>>
  BY DEF Sent, Receive, link, chipside, call
<1>2. RequestInv'
  BY <1>1 DEF RequestInv, InFlight, Resend
<1>3. ExecutedInv' /\ AnswerIsForThisCall' /\ ChipInv' /\ KeyIsLatest' /\ NoncesOrdered'
  BY <1>1 DEF ExecutedInv, AtMostOnce, Injective, AnswerIsForThisCall, ChipInv, KeyIsLatest,
       NoncesOrdered
<1>4. KnownInv'
  BY <1>1, MethodKnown
<1>5. CurrentInv'
  <2>1. CurrentFrames \subseteq CurrentFrames'
    BY <1>1 DEF CurrentFrames, Current
  <2>2. out' \in Seq(CurrentFrames')
    BY <1>1, <2>1, SeqMonotonic DEF CurrentInv
  <2>3. QED
    BY <1>1, <2>2 DEF CurrentInv
<1>6. QED
  BY <1>2, <1>3, <1>4, <1>5

\* A response is opened: it is the one of this call, and the host's nonce moves
\* up to the chip's at most.
LEMMA DecryptedSession ==
  ASSUME NonceInv, SessionInv, Decrypted, UNCHANGED <<link, chipside, unseen>>
  PROVE  SessionInv'
<1> USE DEF NonceInv, SessionInv
<1>1. /\ op = "decrypt" /\ l2pc = "returned" /\ got.err = "nil"
      /\ got.data.id = "RESULT" /\ got.data.key = session.key
      /\ got.data.iv = session.ivres
      /\ session' = [session EXCEPT !.ivres = l3IncrementIV(@)]
      /\ op' = "idle" /\ l2pc' = "idle" /\ req' = Resend /\ cur' = Resend
      /\ ret'.answer = got.data.call
      /\ UNCHANGED <<chip, etEph, executed, eph, sealed, call, unseen>>
  BY DEF Decrypted, Opens, Return, L2Done, chipside, call
<1>2. /\ session'.status = session.status /\ session'.key = session.key
      /\ session'.ivcmd = session.ivcmd
      /\ session'.ivres = l3IncrementIV(session.ivres)
  BY <1>1 DEF TypeOK, HostTypes
<1>3. Known(got.data) /\ Current(got.data)
  BY <1>1 DEF KnownInv, CurrentInv
<1>4. RequestInv'
  BY <1>1 DEF RequestInv, InFlight, Resend
<1>5. ExecutedInv' /\ CurrentInv'
  BY <1>1 DEF ExecutedInv, AtMostOnce, Injective, CurrentInv
<1>6. AnswerIsForThisCall'
  BY <1>1, <1>3 DEF Known, Current, AnswerIsForThisCall
<1>7. KnownInv'
  BY <1>1, MethodKnown
<1>8. ChipInv' /\ KeyIsLatest'
  BY <1>1, <1>2 DEF ChipInv, KeyIsLatest
<1>9. NoncesOrdered'
  <2> SUFFICES ASSUME session.key = chip.key, chip.key # NoKey, Len(sealed) < IVMod
               PROVE  chip.ivcmd <= session.ivcmd /\ session'.ivres <= chip.ivres
                      /\ chip.ivcmd = chip.ivres
    BY <1>1, <1>2 DEF NoncesOrdered
  <2>1. session.ivres < chip.ivres
    BY <1>1, <1>3 DEF Known
  <2>2. session.ivres + 1 < IVMod /\ session.ivres \in Nat
    BY <2>1, Numbers DEF IV
  <2>3. session'.ivres = session.ivres + 1
    BY <1>2, <2>2, IVCounts
  <2>4. QED
    BY <2>1, <2>3, Numbers DEF NoncesOrdered
<1>10. QED
  BY <1>4, <1>5, <1>6, <1>7, <1>8, <1>9

\* Every method that is called keeps the invariants.
LEMMA CallSession ==
  ASSUME NonceInv, SessionInv, Call
  PROVE  SessionInv'
<1>1. UNCHANGED <<link, chipside, unseen>>
  BY DEF Call
<1>2. CASE SessionStart
  <2> DEFINE r == [id |-> "CERT", len |-> 2, block |-> 0]
  <2>1. SendRecv(r) /\ r.id \notin {"HANDSHAKE", "ENCRYPTED_CMD"} /\ op' = "cert"
        /\ UNCHANGED <<session, eph, sealed>>
    BY <1>2 DEF SessionStart, GetCertBlock
  <2> HIDE DEF r
  <2>2. QED
    BY <1>1, <2>1, SendSession
<1>3. CASE CommandRefused
  <2>1. Return("command", "ErrNoSession", 0) /\ UNCHANGED <<session, eph, sealed>>
    BY <1>3 DEF CommandRefused
  <2>2. QED
    BY <1>1, <2>1, ReturnSession
<1>4. ASSUME NEW c \in Commands, Encrypt(c)
      PROVE  SessionInv'
  BY <1>1, <1>4, EncryptSession
<1>5. ASSUME NEW id \in Plain \union {"SESSION_ABORT"}, PlainCall(id)
      PROVE  SessionInv'
  <2> DEFINE r == [id |-> id, len |-> 1]
  <2>1. SendRecv(r) /\ r.id \notin {"HANDSHAKE", "ENCRYPTED_CMD"}
        /\ op' \in {"cert", "plain", "abort"} /\ UNCHANGED <<session, eph, sealed>>
    BY <1>5, L3Assumption DEF PlainCall
  <2> HIDE DEF r
  <2>2. QED
    BY <1>1, <2>1, SendSession
<1>6. CASE Deinit
  <2>1. (\E err : Return("Deinit", err, 0)) /\ session' = NoSession /\ UNCHANGED <<eph, sealed>>
    BY <1>6 DEF Deinit
  <2>2. QED
    BY <1>1, <2>1, ReturnSession
<1>7. QED
  BY <1>2, <1>3, <1>4, <1>5, <1>6 DEF Call

\* And every method that goes on or returns.
LEMMA ContinueSession ==
  ASSUME NonceInv, SessionInv, Continue
  PROVE  SessionInv'
<1>1. CASE Established /\ UNCHANGED <<link, chipside>>
  BY <1>1, EstablishedSession
<1> SUFFICES ASSUME UNCHANGED <<link, chipside, unseen>>,
                    \/ CertBlock \/ CertFails \/ HostKeyFails \/ Handshake \/ HandshakeFails
                    \/ Sent \/ Decrypted \/ DecryptFails \/ PlainReturns \/ AbortReturns
             PROVE  SessionInv'
  BY <1>1 DEF Continue
<1>2. CASE CertBlock
  <2> DEFINE r == [id |-> "CERT", len |-> 2, block |-> block + 1]
  <2>1. SendRecv(r) /\ r.id \notin {"HANDSHAKE", "ENCRYPTED_CMD"} /\ op' = "cert"
        /\ UNCHANGED <<session, eph, sealed>>
    BY <1>2 DEF CertBlock, GetCertBlock, NonceInv, TypeOK, HostTypes
  <2> HIDE DEF r
  <2>2. QED
    BY <2>1, SendSession
<1>3. CASE Handshake
  BY <1>3, HandshakeSession
<1>4. CASE CertFails \/ HostKeyFails \/ HandshakeFails
  <2>1. \E err : Return("SessionStart", err, 0)
    BY <1>4 DEF CertFails, HostKeyFails, HandshakeFails
  <2>2. UNCHANGED <<eph, sealed>> /\ (session' = session \/ session' = NoSession)
    BY <1>4 DEF CertFails, HostKeyFails, HandshakeFails
  <2>3. QED
    BY <2>1, <2>2, ReturnSession
<1>5. CASE Sent
  <2>1. CASE got.err # "nil"
    <3>1. Return("command", got.err, 0) /\ UNCHANGED <<session, eph, sealed>>
      BY <1>5, <2>1 DEF Sent
    <3>2. QED
      BY <2>1, <3>1, ReturnSession
  <2>2. CASE got.err = "nil"
    BY <1>5, <2>2, SentSession
  <2>3. QED
    BY <2>1, <2>2
<1>6. CASE Decrypted
  BY <1>6, DecryptedSession
<1>7. CASE DecryptFails
  <2> DEFINE err == IF got.err = "nil" THEN "ErrCrypto" ELSE got.err
  <2>1. err # "nil" /\ Return("command", err, 0) /\ UNCHANGED <<session, eph, sealed>>
    BY <1>7 DEF DecryptFails
  <2> HIDE DEF err
  <2>2. QED
    BY <2>1, ReturnSession
<1>8. CASE PlainReturns
  <2>1. req.id # "command"
    BY L3Assumption DEF NonceInv, TypeOK, L2Types, Requests
  <2>2. Return(req.id, got.err, 0) /\ UNCHANGED <<session, eph, sealed>>
    BY <1>8 DEF PlainReturns
  <2>3. QED
    BY <2>1, <2>2, ReturnSession
<1>9. CASE AbortReturns
  <2>1. Return("SESSION_ABORT", got.err, 0) /\ session' = NoSession /\ UNCHANGED <<eph, sealed>>
    BY <1>9 DEF AbortReturns
  <2>2. QED
    BY <2>1, ReturnSession
<1>10. QED
  BY <1>2, <1>3, <1>4, <1>5, <1>6, <1>7, <1>8, <1>9

\* Every step of the system keeps the invariants.
LEMMA StepSession ==
  ASSUME NonceInv, SessionInv, [Next]_vars
  PROVE  SessionInv'
<1>1. CASE Write
  BY <1>1, WriteSession, WriteFrames DEF SessionInv
<1>2. CASE Restart /\ UNCHANGED <<link, chipside, unseen>>
  <2>1. Return("none", "nil", 0) /\ session' = NoSession /\ UNCHANGED <<eph, sealed>>
    BY <1>2 DEF Restart
  <2>2. QED
    BY <1>2, <2>1, ReturnSession
<1>3. CASE UNCHANGED vars
  <2>1. UNCHANGED <<l2pc, req, cur, got, out, kept, op, session, ret, eph, sealed, chip, etEph,
                    executed, unseen, call>>
    BY <1>3 DEF vars, l2vars, link, host, chipside, call
  <2>2. \A d : (Known(d) <=> Known(d)') /\ (Current(d) <=> Current(d)')
    BY <2>1 DEF Known, Current
  <2>3. KnownFrames' = KnownFrames /\ CurrentFrames' = CurrentFrames
    BY <2>2 DEF KnownFrames, CurrentFrames
  <2>4. Known(got.data)' <=> Known(got.data)
    BY <2>1 DEF Known
  <2>5. Current(got.data)' <=> Current(got.data)
    BY <2>1 DEF Current
  <2>6. KnownInv' /\ CurrentInv'
    BY <2>1, <2>3, <2>4, <2>5 DEF SessionInv, KnownInv, CurrentInv
  <2>7. QED
    BY <2>1, <2>6 DEF SessionInv, RequestInv, InFlight, ChipOpens, ExecutedInv, AtMostOnce,
      Injective, ChipInv, KeyIsLatest, NoncesOrdered, AnswerIsForThisCall
<1>4. QED
  BY <1>1, <1>2, <1>3, CallSession, ContinueSession, ReadSession, StopSession, RestartSession
     DEF Next, HostStep

\* The invariants hold.
LEMMA SessionInvariant == Spec => []SessionInv
<1>1. Init => SessionInv
  <2> SUFFICES ASSUME Init PROVE SessionInv
    OBVIOUS
  <2>1. /\ op = "idle" /\ l2pc = "idle" /\ req = Resend /\ cur = Resend
        /\ out = <<>> /\ kept = <<>> /\ executed = <<>>
        /\ session = NoSession /\ chip = NoChipSession /\ eph = 0 /\ etEph = 0
    BY DEF Init, L2Init, ChipInit
  <2>2. RequestInv /\ ExecutedInv
    BY <2>1 DEF RequestInv, InFlight, Resend, ExecutedInv, AtMostOnce, Injective
  <2>3. KnownInv /\ CurrentInv
    BY <2>1 DEF KnownInv, CurrentInv
  <2>4. ChipInv /\ KeyIsLatest /\ NoncesOrdered
    BY <2>1 DEF ChipInv, KeyIsLatest, NoncesOrdered, NoSession, NoChipSession, NoKey
  <2>5. AnswerIsForThisCall
    BY DEF Init, NoReturn, AnswerIsForThisCall
  <2>6. QED
    BY <2>2, <2>3, <2>4, <2>5 DEF SessionInv
<1>2. QED
  BY <1>1, StepSession, NonceInvariant, PTL DEF Spec

-----------------------------------------------------------------------------
\* Messages that do not fit a frame.

\* Host and chip hold the same session, whose nonces count up.
Together == session.key = chip.key /\ chip.key # NoKey /\ Len(sealed) < IVMod

\* No part of a split answer is in the register.
Whole == out \in Seq(WholeFrames) /\ kept \in Seq(WholeFrames)

\* The chip spent the response nonce iv, and no answer that is still to be opened
\* has it.
Lacks(d, iv) == ~(d.id = "RESULT" /\ d.key = session.key /\ d.iv = iv)
LackingFrames(iv) == {f \in Frames : Lacks(f.data, iv)}

Dropped(iv) ==
  /\ session.ivres <= iv /\ iv < chip.ivres
  /\ out \in Seq(LackingFrames(iv)) /\ kept \in Seq(LackingFrames(iv))
  /\ l2pc = "returned" /\ got.err = "nil" => Lacks(got.data, iv)

\* The host waits for a response that it will never meet.
Behind == \E iv \in IV : Dropped(iv)

\* The host has used more nonces for commands than the chip can still open: one
\* more than the command in flight accounts for, if that fits a frame.
Ahead ==
  /\ chip.ivcmd < session.ivcmd
  /\ op = "encrypt" /\ ~(req.len > l2MaxDataSize) => chip.ivcmd + 1 < session.ivcmd

\* A part of a split answer stands for a nonce that the host will never meet.
SplitInv == Together /\ ~Whole => Behind

\* The parts of a session's answers are gone before the next one is established.
FreshInv ==
  op = "handshake" /\ chip.key.host = eph =>
    /\ l2pc \in {"read", "receive"} =>
         /\ out \in Seq(WholeFrames)
         /\ kept \in Seq(WholeFrames) \/ (out # <<>> /\ Head(out) # GenErr)
    /\ l2pc = "send" => Whole
    /\ l2pc = "returned" /\ got.err = "nil" => Whole

\* L2 has returned err to the method that called it.
L2Returned(err) == op # "idle" /\ l2pc = "returned" /\ got.err = err

\* An answer that came in parts leaves the host behind in responses.
ContInv == Together /\ L2Returned("ErrL2ResCont") => Behind

\* A command that does not fit a frame leaves it ahead in commands: the chip never
\* gets it.
TooLongInv ==
  /\ Together /\ op = "encrypt" /\ req.len > l2MaxDataSize => chip.ivcmd < session.ivcmd
  /\ L2Returned("ErrL2ReqTooLong") => req.len > l2MaxDataSize
  /\ op = "decrypt" => req = Resend

\* Commands run in a session, and a session has a key.
LiveInv ==
  /\ op = "handshake" \/ session.status = "sessionOn" => eph > 0
  /\ op \in {"encrypt", "decrypt"} => session.status = "sessionOn"

\* After a size error the two ends stay apart, in one way or the other.
ApartInv == sizeError /\ Together => Behind \/ Ahead

SizeInv == SplitInv /\ FreshInv /\ ContInv /\ TooLongInv /\ LiveInv /\ ApartInv

\* What the chip takes leaves a register without parts as it is, unless it
\* carries out a command.
LEMMA WholeStays ==
  ASSUME TypeOK, ChipTakes \/ ChipMisses, ~(cur.id = "ENCRYPTED_CMD" /\ ChipExecutes(cur))
  PROVE  /\ Whole => Whole'
         /\ ChipTakes /\ cur # Resend =>
              /\ out' \in Seq(WholeFrames)
              /\ kept' \in Seq(WholeFrames) \/ (out' # <<>> /\ Head(out') # GenErr)
<1>1. GivenFrames \subseteq WholeFrames
  BY DEF GivenFrames, WholeFrames
<1>2. CASE ChipTakes
  BY <1>1, <1>2, TakesIn DEF Whole
<1>3. CASE ChipMisses /\ ~ChipTakes
  BY <1>3 DEF ChipMisses, SeesNothing, link, Whole
<1>4. QED
  BY <1>2, <1>3

\* Nor does it bring back an answer whose nonce was spent before.
LEMMA LackingStays ==
  ASSUME TypeOK, ChipTakes \/ ChipMisses, NEW iv, iv # chip.ivres,
         out \in Seq(LackingFrames(iv)), kept \in Seq(LackingFrames(iv))
  PROVE  out' \in Seq(LackingFrames(iv)) /\ kept' \in Seq(LackingFrames(iv))
<1>1. GivenFrames \subseteq LackingFrames(iv)
  BY DEF GivenFrames, LackingFrames, Given, Lacks
<1>2. CASE ChipTakes
  BY <1>1, <1>2, TakesIn
<1>3. CASE ChipMisses /\ ~ChipTakes
  BY <1>3 DEF ChipMisses, SeesNothing, link
<1>4. QED
  BY <1>2, <1>3

\* A command whose answer is split spends a nonce for which there is no answer.
LEMMA Splits ==
  ASSUME NonceInv, SessionInv, Together, Whole, cur.id = "ENCRYPTED_CMD", ChipExecutes(cur)
  PROVE  \/ Whole'
         \/ out' \in Seq(LackingFrames(chip.ivres)) /\ kept' \in Seq(LackingFrames(chip.ivres))
<1> USE DEF NonceInv, SessionInv
<1>1. PICK frames \in Seq(GivenFrames) :
        /\ frames # <<>> /\ Head(frames) # GenErr /\ Answers(frames)
        /\ frames \in Seq(WholeFrames) \/ frames \in Seq(BareFrames)
  BY ExecutesGives
<1>2. CASE frames \in Seq(WholeFrames)
  <2>1. GenErr \in WholeFrames
    BY StatusFrameType DEF GenErr, StatusFrame, WholeFrames, Split, Status
  <2>2. QED
    BY <1>1, <1>2, <2>1, AnswersIn DEF Whole
<1>3. CASE frames \in Seq(BareFrames)
  <2> DEFINE S == LackingFrames(chip.ivres)
  <2>1. GenErr \in S
    BY StatusFrameType DEF GenErr, StatusFrame, LackingFrames, Lacks, Status
  <2>2. frames \in Seq(S)
    <3>1. BareFrames \subseteq S
      BY DEF BareFrames, LackingFrames, Lacks
    <3>2. QED
      BY <1>3, <3>1, SeqMonotonic
  <2>3. kept \in Seq(S)
    <3>1. \A d \in Data : Known(d) => Lacks(d, chip.ivres)
      BY DataFields, Numbers DEF Known, Lacks, Together
    <3>2. KnownFrames \subseteq S
      BY <3>1 DEF KnownFrames, LackingFrames, Frames
    <3>3. QED
      BY <3>2, SeqMonotonic DEF KnownInv
  <2> HIDE DEF S
  <2>4. out' \in Seq(S) /\ kept' \in Seq(S)
    BY <1>1, <2>1, <2>2, <2>3, AnswersIn
  <2>5. QED
    BY <2>4 DEF S
<1>4. QED
  BY <1>1, <1>2, <1>3

\* A write keeps the invariants.
LEMMA WriteSize ==
  ASSUME NonceInv, SessionInv, SizeInv, Write
  PROVE  SizeInv'
<1> USE DEF NonceInv, SessionInv, SizeInv
<1>1. /\ UNCHANGED <<op, session, eph, sealed, sizeError, req, cur>>
      /\ l2pc = "send" /\ op # "idle" /\ op # "decrypt"
      /\ ChipTakes \/ ChipMisses
      /\ ChipStep
  BY WriteLeads DEF host
<1>2. /\ cur.len <= l2MaxDataSize
      /\ \/ l2pc' = "read"
         \/ l2pc' = "returned" /\ got'.err = "ErrL1SPI"
      /\ l2pc' = "read" => ChipTakes \/ ChipMisses
  BY <1>1 DEF Write, Written, WriteFails, Writing, L2Return
<1>3. LiveInv' /\ ContInv'
  BY <1>1, <1>2 DEF LiveInv, ContInv, L2Returned
<1>4. Together' => Together
  <2>1. CASE cur.id = "HANDSHAKE" /\ ChipHandshakes(cur)
    <3>1. op = "handshake"
      BY <2>1 DEF RequestInv, Resend
    <3>2. session'.key = NoKey /\ chip'.key.chip = etEph + 1
      BY <1>1, <2>1, <3>1 DEF HandshakeIsNew, ChipInv, ChipHandshakes
    <3>3. chip'.key # NoKey
      BY <3>2, Numbers DEF NoKey
    <3>4. QED
      BY <3>2, <3>3 DEF Together
  <2>2. CASE cur.id = "ENCRYPTED_CMD" /\ ChipExecutes(cur)
    BY <1>1, <2>2, Executing DEF Together
  <2>3. CASE UNCHANGED chipside \/ chip' = NoChipSession
    BY <1>1, <2>3 DEF Together, chipside, NoChipSession
  <2>4. QED
    BY <1>1, <2>1, <2>2, <2>3 DEF ChipStep
<1>5. Together' => chip' = chip \/ (cur.id = "ENCRYPTED_CMD" /\ ChipExecutes(cur))
  <2>1. CASE cur.id = "HANDSHAKE" /\ ChipHandshakes(cur)
    <3>1. chip'.key.chip = etEph + 1
      BY <2>1 DEF ChipHandshakes
    <3>2. Together' => session.key = chip'.key /\ session.key = chip.key
      BY <1>1, <1>4 DEF Together
    <3>3. chip.key.chip \in Nat /\ chip.key.chip <= etEph
      BY Numbers DEF ChipInv, Key
    <3>4. QED
      BY <3>1, <3>2, <3>3, Numbers
  <2>2. CASE chip' = NoChipSession
    BY <2>2 DEF Together, NoChipSession
  <2>3. QED
    BY <1>1, <2>1, <2>2 DEF ChipStep, chipside
<1>6. TooLongInv'
  <2>1. ASSUME op = "encrypt", req.len > l2MaxDataSize, Together'
        PROVE  chip'.ivcmd < session'.ivcmd
    <3>1. cur.id = "ENCRYPTED_CMD" /\ ChipExecutes(cur) => req = cur
      BY Executing
    <3>2. req # cur
      <4>1. \A m, n \in Nat : m > n => ~(m <= n)
        OBVIOUS
      <4>2. req.len \in Nat /\ l2MaxDataSize \in Nat
        BY L2Assumption DEF TypeOK, L2Types, Requests
      <4>3. QED
        BY <1>2, <2>1, <4>1, <4>2
    <3>3. chip' = chip
      BY <1>5, <2>1, <3>1, <3>2
    <3>4. QED
      BY <1>1, <1>4, <2>1, <3>3 DEF TooLongInv
  <2>2. QED
    BY <1>1, <1>2, <2>1 DEF TooLongInv, L2Returned
<1>7. FreshInv'
  <2> SUFFICES ASSUME op = "handshake", chip'.key.host = eph, l2pc' = "read"
               PROVE  /\ out' \in Seq(WholeFrames)
                      /\ kept' \in Seq(WholeFrames) \/ (out' # <<>> /\ Head(out') # GenErr)
    BY <1>1, <1>2 DEF FreshInv
  <2>1. ~(cur.id = "ENCRYPTED_CMD" /\ ChipExecutes(cur))
    BY Executing
  <2>2. CASE cur.id = "HANDSHAKE" /\ ChipHandshakes(cur)
    <3>1. cur # Resend /\ ChipTakes
      BY <2>2 DEF Resend, ChipTakes
    <3>2. QED
      BY <1>1, <2>1, <3>1, WholeStays
  <2>3. CASE chip' = NoChipSession
    <3>1. chip'.key.host = 0 /\ eph > 0 /\ eph \in Nat
      BY <2>3, Numbers DEF NoChipSession, NoKey, LiveInv
    <3>2. QED
      BY <3>1
  <2>4. CASE UNCHANGED chipside
    <3>1. Whole
      BY <1>1, <2>4 DEF FreshInv, chipside
    <3>2. QED
      BY <1>1, <2>1, <3>1, WholeStays DEF Whole
  <2>5. QED
    BY <1>1, <2>1, <2>2, <2>3, <2>4 DEF ChipStep
<1>8. ASSUME Together', NEW iv \in IV, session.ivres <= iv, iv < chip'.ivres,
             out' \in Seq(LackingFrames(iv)), kept' \in Seq(LackingFrames(iv))
      PROVE  Behind'
  <2>1. LackingFrames(iv)' = LackingFrames(iv)
    BY <1>1 DEF LackingFrames, Lacks
  <2>2. Dropped(iv)'
    BY <1>1, <1>2, <1>8, <2>1 DEF Dropped
  <2>3. QED
    BY <2>2 DEF Behind
<1>9. Together' => chip.ivres <= chip'.ivres
  BY <1>1, <1>4, <1>5, Executing, Numbers DEF ChipInv, Together
<1>10. ASSUME Together', Behind
       PROVE  Behind'
  <2>1. PICK iv \in IV : Dropped(iv)
    BY <1>10 DEF Behind
  <2>2. iv # chip.ivres /\ iv < chip'.ivres
    <3>1. iv \in Nat /\ chip.ivres \in Nat /\ chip'.ivres \in Nat /\ iv < chip.ivres
      BY <1>1, <1>4, <1>5, <1>10, <2>1, Executing, Numbers DEF Dropped, ChipInv, Together
    <3>2. QED
      BY <1>9, <1>10, <3>1
  <2>3. out' \in Seq(LackingFrames(iv)) /\ kept' \in Seq(LackingFrames(iv))
    BY <1>1, <2>1, <2>2, LackingStays DEF Dropped
  <2>4. QED
    BY <1>8, <1>10, <2>1, <2>2, <2>3 DEF Dropped
<1>11. ASSUME Together', Whole, ~Whole'
       PROVE  Behind'
  <2>1. cur.id = "ENCRYPTED_CMD" /\ ChipExecutes(cur)
    BY <1>1, <1>11, WholeStays
  <2>2. out' \in Seq(LackingFrames(chip.ivres)) /\ kept' \in Seq(LackingFrames(chip.ivres))
    BY <1>4, <1>11, <2>1, Splits
  <2>3. chip.ivres \in IV /\ session.ivres <= chip.ivres /\ chip.ivres < chip'.ivres
    BY <1>1, <1>4, <1>11, <2>1, Executing, Numbers DEF ChipInv, Together, NoncesOrdered
  <2>4. QED
    BY <1>8, <1>11, <2>2, <2>3
<1>12. SplitInv'
  BY <1>4, <1>10, <1>11 DEF SplitInv
<1>13. ApartInv'
  <2> SUFFICES ASSUME Together', sizeError, Ahead
               PROVE  Ahead'
    BY <1>1, <1>4, <1>10 DEF ApartInv
  <2>1. ~(cur.id = "ENCRYPTED_CMD" /\ ChipExecutes(cur))
    <3> SUFFICES ASSUME cur.id = "ENCRYPTED_CMD", ChipExecutes(cur)
                 PROVE  FALSE
      OBVIOUS
    <3>1. req = cur /\ op = "encrypt" /\ session.ivcmd = chip.ivcmd + 1
      BY <1>4, Executing DEF Together
    <3>2. ~(req.len > l2MaxDataSize)
      <4>1. \A m, n \in Nat : m <= n => ~(m > n)
        OBVIOUS
      <4>2. req.len \in Nat /\ l2MaxDataSize \in Nat
        BY L2Assumption DEF TypeOK, L2Types, Requests
      <4>3. QED
        BY <1>2, <3>1, <4>1, <4>2
    <3>3. chip.ivcmd + 1 < session.ivcmd
      BY <3>1, <3>2 DEF Ahead
    <3>4. QED
      BY <3>1, <3>3, Numbers
  <2>2. chip' = chip
    BY <1>5, <2>1
  <2>3. QED
    BY <1>1, <2>2 DEF Ahead
<1>14. QED
  BY <1>3, <1>6, <1>7, <1>12, <1>13

\* What a read that fails returns.
LEMMA ReadErrors ==
  ASSUME Read, l2pc' = "returned"
  PROVE  /\ got'.err # "ErrL2ReqTooLong"
         /\ got'.err = "ErrL2ResCont" => Split(Head(out))
<1>1. CASE ReadFails("ErrL1SPI")
  BY <1>1 DEF ReadFails, L2Return
<1>2. ASSUME NEW f \in OnWire(Head(out)), ReadFrame(f)
      PROVE  /\ got'.err # "ErrL2ReqTooLong"
             /\ got'.err = "ErrL2ResCont" => Split(Head(out))
  <2> DEFINE err == l2FrameCheck(f)
  <2>1. err # "ErrL2ReqTooLong" /\ (err = "ErrL2ResCont" => f.status = "RESULT_CONT")
    BY DEF l2FrameCheck, StatusError
  <2>2. f.status = "RESULT_CONT" => Head(out).status = "RESULT_CONT"
    <3>1. CASE f = Head(out)
      BY <3>1
    <3>2. CASE f = [Head(out) EXCEPT !.data = [id |-> "DAMAGED"], !.crcOK = FALSE]
      BY <3>2
    <3>3. CASE \E s \in {"CRC_ERR", "GEN_ERR"} : f = [Head(out) EXCEPT !.status = s, !.crcOK = FALSE]
      BY <3>3
    <3>4. CASE f = [Head(out) EXCEPT !.len = 255, !.crcOK = FALSE]
      BY <3>4
    <3>5. QED
      BY <3>1, <3>2, <3>3, <3>4 DEF OnWire
  <2> HIDE DEF err
  <2>3. got'.err \in {"nil", err}
    BY <1>2 DEF ReadFrame, L2Return, Retry, err
  <2>4. QED
    BY <2>1, <2>2, <2>3 DEF Split
<1>3. QED
  BY <1>1, <1>2 DEF Read

\* A read keeps the invariants.
LEMMA ReadSize ==
  ASSUME NonceInv, SessionInv, SizeInv, Read
  PROVE  SizeInv'
<1> USE DEF NonceInv, SessionInv, SizeInv
<1>1. /\ UNCHANGED <<op, session, eph, sealed, sizeError, chip, req>>
      /\ Gives /\ l2pc \in {"read", "receive"} /\ op # "idle"
      /\ \/ l2pc' = "panicked"
         \/ /\ l2pc' = "returned"
            /\ got'.err = "nil" => \E f \in OnWire(Head(out)) : got'.data = f.data
         \/ l2pc' = "send"
  BY ReadLeads DEF host, chipside
<1>2. Together' <=> Together
  BY <1>1 DEF Together
<1>3. Whole => Whole' /\ ~Split(Head(out))
  BY <1>1, GivesIn DEF Whole, WholeFrames
<1>4. LiveInv'
  BY <1>1 DEF LiveInv
<1>5. TooLongInv'
  BY <1>1, <1>2, ReadErrors DEF TooLongInv, L2Returned
<1>6. ASSUME Behind
      PROVE  Behind'
  <2>1. PICK iv \in IV : Dropped(iv)
    BY <1>6 DEF Behind
  <2>2. LackingFrames(iv)' = LackingFrames(iv)
    BY <1>1 DEF LackingFrames, Lacks
  <2>3. /\ out' \in Seq(LackingFrames(iv)) /\ kept' \in Seq(LackingFrames(iv))
        /\ Head(out) \in LackingFrames(iv)
    BY <1>1, <2>1, GivesIn DEF Dropped
  <2>4. l2pc' = "returned" /\ got'.err = "nil" => Lacks(got.data, iv)'
    <3> SUFFICES ASSUME l2pc' = "returned", got'.err = "nil"
                 PROVE  Lacks(got.data, iv)'
      OBVIOUS
    <3>1. got'.data = Head(out).data \/ got'.data = [id |-> "DAMAGED"]
      BY <1>1, <2>3, OnWireData DEF LackingFrames
    <3>2. QED
      BY <1>1, <2>3, <3>1 DEF LackingFrames, Lacks
  <2>5. Dropped(iv)'
    BY <1>1, <2>1, <2>2, <2>3, <2>4 DEF Dropped
  <2>6. QED
    BY <2>5 DEF Behind
<1>7. FreshInv'
  <2> SUFFICES ASSUME op = "handshake", chip.key.host = eph
               PROVE  Whole'
    BY <1>1 DEF FreshInv
  <2>1. out \in Seq(WholeFrames) /\ (kept \in Seq(WholeFrames) \/ Head(out) # GenErr)
    BY <1>1 DEF FreshInv
  <2>2. QED
    BY <1>1, <2>1, GivesIn DEF Whole
<1>8. SplitInv' /\ ContInv'
  BY <1>1, <1>2, <1>3, <1>6, ReadErrors DEF SplitInv, ContInv, L2Returned
<1>9. ApartInv'
  BY <1>1, <1>2, <1>6 DEF ApartInv, Ahead
<1>10. QED
  BY <1>4, <1>5, <1>7, <1>8, <1>9

\* So does an L2 call that returns without an exchange.
LEMMA StopSize ==
  ASSUME NonceInv, SessionInv, SizeInv, ReadNothing \/ Stop
  PROVE  SizeInv'
<1> USE DEF NonceInv, SessionInv, SizeInv
<1>1. /\ UNCHANGED <<op, session, eph, sealed, sizeError, chip, req, out, kept>>
      /\ l2pc \in {"send", "read", "receive"} /\ l2pc' = "returned"
      /\ \/ got'.err \in {"ErrL1Timeout", "ErrL2StatusUnknown"}
         \/ got'.err = "ErrL2ReqTooLong" /\ cur.len > l2MaxDataSize
  BY DEF ReadNothing, Stop, ReadFails, Exhausted, TooLong, Reading, L2Return, host, link, chipside
<1>2. op # "idle"
  BY <1>1 DEF TypeOK, HostTypes
<1>3. Together' <=> Together
  BY <1>1 DEF Together
<1>4. got'.err = "ErrL2ReqTooLong" => req.len > l2MaxDataSize
  <2>1. ~(0 > l2MaxDataSize)
    BY L2Assumption
  <2>2. QED
    BY <1>1, <2>1 DEF RequestInv, Resend
<1>5. LiveInv' /\ ContInv' /\ FreshInv' /\ TooLongInv'
  BY <1>1, <1>2, <1>3, <1>4 DEF LiveInv, ContInv, FreshInv, TooLongInv, L2Returned
<1>6. SplitInv' /\ ApartInv'
  <2>1. (Whole' <=> Whole) /\ (Ahead' <=> Ahead)
    BY <1>1 DEF Whole, Ahead
  <2>2. \A iv : Dropped(iv) => Dropped(iv)'
    BY <1>1 DEF Dropped, LackingFrames, Lacks
  <2>3. QED
    BY <1>1, <1>3, <2>1, <2>2 DEF SplitInv, ApartInv, Behind
<1>7. QED
  BY <1>5, <1>6

\* And a chip that restarts.
LEMMA RestartSize ==
  ASSUME NonceInv, SessionInv, SizeInv, ChipRestarts
  PROVE  SizeInv'
<1> USE DEF NonceInv, SessionInv, SizeInv
<1>1. /\ UNCHANGED <<op, session, eph, l2pc, got, req>>
      /\ chip' = NoChipSession
  BY DEF ChipRestarts, host, l2vars
<1>2. ~Together' /\ chip'.key.host = 0
  BY <1>1 DEF Together, NoChipSession, NoKey
<1>3. op = "handshake" => chip'.key.host # eph
  BY <1>2, Numbers DEF LiveInv
<1>4. LiveInv' /\ ContInv' /\ FreshInv' /\ TooLongInv' /\ SplitInv' /\ ApartInv'
  BY <1>1, <1>2, <1>3 DEF LiveInv, ContInv, FreshInv, TooLongInv, SplitInv, ApartInv, L2Returned
<1>5. QED
  BY <1>4

\* A method that begins or goes on leaves the parts in the register, and the nonce
\* they stand for, as they are.
LEMMA MethodSplit ==
  ASSUME SplitInv, UNCHANGED <<link, chipside>>, l2pc' # "returned",
         Together' => Together /\ session'.key = session.key /\ session'.ivres = session.ivres
  PROVE  SplitInv' /\ (Together' /\ Behind => Behind')
<1>1. UNCHANGED <<out, kept, chip>>
  BY DEF link, chipside
<1>2. ASSUME Together', Behind
      PROVE  Behind'
  <2>1. PICK iv \in IV : Dropped(iv)
    BY <1>2 DEF Behind
  <2>2. Dropped(iv)'
    BY <1>1, <1>2, <2>1 DEF Dropped, LackingFrames, Lacks
  <2>3. QED
    BY <2>2 DEF Behind
<1>3. QED
  BY <1>1, <1>2 DEF SplitInv, Whole

\* A method that returns, with the session as it was or with none; a command only
\* with an error of L2 that it has met, or with another error.
LEMMA ReturnSize ==
  ASSUME NonceInv, SessionInv, SizeInv, Noted, UNCHANGED <<link, chipside, eph, sealed>>,
         NEW method, NEW err, NEW answer, Return(method, err, answer),
         session' = session \/ session' = NoSession,
         method = "command" /\ err \in SizeErrors =>
           session' = session /\ L2Returned(err) /\ op \in {"encrypt", "decrypt"}
  PROVE  SizeInv'
<1> USE DEF NonceInv, SessionInv, SizeInv
<1>1. /\ op' = "idle" /\ l2pc' = "idle" /\ ret'.op = method /\ ret'.err = err
      /\ UNCHANGED <<chip, eph, sealed>>
  BY DEF Return, L2Done, chipside
<1>2. session' = session \/ (session'.status = "sessionOff" /\ session'.key = NoKey)
  BY DEF NoSession
<1>3. Together' => Together /\ session' = session
  BY <1>1, <1>2 DEF Together
<1>4. SplitInv' /\ (Together' /\ Behind => Behind')
  BY <1>1, <1>3, MethodSplit
<1>5. LiveInv' /\ FreshInv' /\ ContInv' /\ TooLongInv'
  BY <1>1, <1>2 DEF LiveInv, FreshInv, ContInv, TooLongInv, L2Returned
<1>6. ApartInv'
  <2> SUFFICES ASSUME sizeError', Together'
               PROVE  Behind' \/ chip'.ivcmd < session'.ivcmd
    BY <1>1 DEF ApartInv, Ahead
  <2>1. CASE sizeError
    BY <1>1, <1>3, <1>4, <2>1 DEF ApartInv, Ahead
  <2>2. CASE method = "command" /\ err = "ErrL2ResCont"
    BY <1>3, <1>4, <2>2 DEF SizeErrors, ContInv
  <2>3. CASE method = "command" /\ err = "ErrL2ReqTooLong"
    <3>1. req.len > l2MaxDataSize
      BY <2>3 DEF SizeErrors, TooLongInv
    <3>2. op = "encrypt"
      <4>1. ~(0 > l2MaxDataSize)
        BY L2Assumption
      <4>2. QED
        BY <2>3, <3>1, <4>1 DEF SizeErrors, TooLongInv, Resend
    <3>3. QED
      BY <1>1, <1>3, <3>1, <3>2 DEF TooLongInv
  <2>4. sizeError \/ (method = "command" /\ err \in SizeErrors)
    BY <1>1 DEF Noted
  <2>5. QED
    BY <2>1, <2>2, <2>3, <2>4 DEF SizeErrors
<1>7. QED
  BY <1>4, <1>5, <1>6

\* A method that sends a request that has no part in a session.
LEMMA SendSize ==
  ASSUME NonceInv, SessionInv, SizeInv, Noted, UNCHANGED <<link, chipside, session, eph, sealed>>,
         NEW r, SendRecv(r), op' \in {"cert", "plain", "abort"}
  PROVE  SizeInv'
<1> USE DEF NonceInv, SessionInv, SizeInv
<1>1. l2pc' = "send" /\ UNCHANGED <<chip, session, eph, sealed>>
  BY DEF SendRecv, chipside
<1>2. (Together' <=> Together) /\ SplitInv' /\ (Together' /\ Behind => Behind')
  BY <1>1, MethodSplit DEF Together
<1>3. ApartInv'
  BY <1>1, <1>2 DEF ApartInv, Ahead, Noted
<1>4. QED
  BY <1>1, <1>2, <1>3 DEF LiveInv, FreshInv, ContInv, TooLongInv, L2Returned

\* A handshake begins.
LEMMA HandshakeSize ==
  ASSUME NonceInv, SessionInv, SizeInv, Handshake, UNCHANGED <<link, chipside>>
  PROVE  SizeInv'
<1> USE DEF NonceInv, SessionInv, SizeInv
<1>1. /\ op' = "handshake" /\ session'.key = NoKey /\ session'.status = "sessionOff"
      /\ eph' = eph + 1 /\ l2pc' = "send" /\ UNCHANGED chip
  BY DEF Handshake, SendRecv, NoSession, chipside
<1>2. ~Together' /\ eph' > 0 /\ chip'.key.host # eph'
  BY <1>1, Numbers DEF Together, ChipInv, Key
<1>3. QED
  BY <1>1, <1>2 DEF SplitInv, LiveInv, FreshInv, ContInv, TooLongInv, ApartInv, L2Returned

\* A session is established: if the chip still has it, the register holds no parts.
LEMMA EstablishedSize ==
  ASSUME NonceInv, SessionInv, SizeInv, Established, Noted, UNCHANGED <<link, chipside>>
  PROVE  SizeInv'
<1> USE DEF NonceInv, SessionInv, SizeInv
<1>1. /\ op = "handshake" /\ l2pc = "returned" /\ got.err = "nil" /\ got.data.key.host = eph
      /\ op' = "idle" /\ l2pc' = "idle" /\ ret'.op = "SessionStart" /\ ret'.err = "nil"
      /\ session'.key = got.data.key
      /\ UNCHANGED <<out, kept, chip, eph>>
  BY DEF Established, HandshakeRsp, Return, L2Done, chipside, link
<1>2. Together' => Whole'
  BY <1>1 DEF Together, FreshInv, Whole
<1>3. eph' > 0
  BY <1>1 DEF LiveInv
<1>4. ~sizeError'
  BY <1>1 DEF Noted
<1>5. QED
  BY <1>1, <1>2, <1>3, <1>4 DEF SplitInv, LiveInv, FreshInv, ContInv, TooLongInv, ApartInv,
       L2Returned

\* A command is sealed: the host is ahead until the chip opens it.
LEMMA EncryptSize ==
  ASSUME NonceInv, SessionInv, SizeInv, NEW c \in Commands, Encrypt(c), Noted,
         UNCHANGED <<link, chipside>>
  PROVE  SizeInv'
<1> USE DEF NonceInv, SessionInv, SizeInv
<1>1. /\ op' = "encrypt" /\ session.status = "sessionOn" /\ l2pc' = "send"
      /\ op = "idle"
      /\ session' = [session EXCEPT !.ivcmd = l3IncrementIV(@)]
      /\ \E x : sealed' = Append(sealed, x)
      /\ UNCHANGED <<eph, chip>>
  BY DEF Encrypt, SendRecv, chipside
<1>2. /\ session'.status = "sessionOn" /\ session'.key = session.key
      /\ session'.ivres = session.ivres
      /\ session'.ivcmd = l3IncrementIV(session.ivcmd)
  BY <1>1 DEF TypeOK, HostTypes
<1>3. Len(sealed') = Len(sealed) + 1
  BY <1>1 DEF TypeOK, HostTypes
<1>4. Together' => Together
  BY <1>1, <1>2, <1>3, Numbers DEF Together
<1>5. ASSUME Together'
      PROVE  /\ session'.ivcmd = session.ivcmd + 1
             /\ session.ivcmd \in Nat /\ chip.ivcmd \in Nat /\ chip.ivcmd <= session.ivcmd
  <2>1. session.ivcmd <= Len(sealed) /\ Len(sealed) + 1 < IVMod
    BY <1>1, <1>3, <1>4, <1>5, Numbers DEF NonceIsNew, Together
  <2>2. session.ivcmd \in Nat /\ session.ivcmd + 1 < IVMod /\ chip.ivcmd \in Nat
    BY <2>1, Numbers
  <2>3. session'.ivcmd = session.ivcmd + 1
    BY <1>2, <2>2, IVCounts
  <2>4. chip.ivcmd <= session.ivcmd
    BY <1>4, <1>5 DEF NoncesOrdered, Together
  <2>5. QED
    BY <2>2, <2>3, <2>4
<1>6. SplitInv' /\ (Together' /\ Behind => Behind')
  BY <1>1, <1>2, <1>4, MethodSplit
<1>7. Together' => chip'.ivcmd < session'.ivcmd
  BY <1>1, <1>5
<1>8. LiveInv' /\ ContInv' /\ FreshInv' /\ TooLongInv'
  BY <1>1, <1>2, <1>7 DEF LiveInv, ContInv, FreshInv, TooLongInv, L2Returned
<1>9. ApartInv'
  <2> SUFFICES ASSUME sizeError', Together', Ahead
               PROVE  Ahead'
    BY <1>1, <1>4, <1>6 DEF ApartInv, Noted
  <2>1. chip.ivcmd + 1 < session'.ivcmd
    BY <1>5 DEF Ahead
  <2>2. QED
    BY <1>1, <1>7, <2>1 DEF Ahead
<1>10. QED
  BY <1>6, <1>8, <1>9

\* The response is read.
LEMMA SentSize ==
  ASSUME NonceInv, SessionInv, SizeInv, Sent, got.err = "nil", Noted, UNCHANGED <<link, chipside>>
  PROVE  SizeInv'
<1> USE DEF NonceInv, SessionInv, SizeInv
<1>1. /\ op = "encrypt" /\ op' = "decrypt" /\ l2pc' = "receive" /\ req' = Resend
      /\ UNCHANGED <<chip, session, eph, sealed>>
  BY DEF Sent, Receive, chipside
<1>2. (Together' <=> Together) /\ SplitInv' /\ (Together' /\ Behind => Behind')
  BY <1>1, MethodSplit DEF Together
<1>3. ApartInv'
  BY <1>1, <1>2 DEF ApartInv, Ahead, Noted
<1>4. QED
  BY <1>1, <1>2, <1>3 DEF LiveInv, FreshInv, ContInv, TooLongInv, L2Returned

\* A response is opened: it is not one of those that parts stand for.
LEMMA DecryptedSize ==
  ASSUME NonceInv, SessionInv, SizeInv, Decrypted, Noted, UNCHANGED <<link, chipside>>
  PROVE  SizeInv'
<1> USE DEF NonceInv, SessionInv, SizeInv
<1>1. /\ op = "decrypt" /\ l2pc = "returned" /\ got.err = "nil"
      /\ got.data.id = "RESULT" /\ got.data.key = session.key /\ got.data.iv = session.ivres
      /\ session' = [session EXCEPT !.ivres = l3IncrementIV(@)]
      /\ op' = "idle" /\ l2pc' = "idle" /\ ret'.err = Outcome(got.data)
      /\ UNCHANGED <<out, kept, chip, eph, sealed>>
  BY DEF Decrypted, Opens, Return, L2Done, chipside, link
<1>2. /\ session'.status = session.status /\ session'.key = session.key
      /\ session'.ivcmd = session.ivcmd
      /\ session'.ivres = l3IncrementIV(session.ivres)
  BY <1>1 DEF TypeOK, HostTypes
<1>3. ret'.err \notin SizeErrors
  <2>1. got.data.result \in {"OK", "FAIL"}
    <3>1. got.data \in Data
      BY <1>1 DEF TypeOK, L2Types
    <3>2. QED
      BY <1>1, <3>1, L3Assumption DEF Data
  <2>2. QED
    BY <1>1, <2>1 DEF Outcome, l3Check, ResultError, SizeErrors
<1>4. Together' <=> Together
  BY <1>1, <1>2 DEF Together
<1>5. LiveInv' /\ FreshInv' /\ ContInv' /\ TooLongInv'
  BY <1>1, <1>2 DEF LiveInv, FreshInv, ContInv, TooLongInv, L2Returned
<1>6. ASSUME Behind
      PROVE  Behind'
  <2>1. PICK iv \in IV : Dropped(iv)
    BY <1>6 DEF Behind
  <2>2. session.ivres < iv
    BY <1>1, <2>1, Numbers DEF Dropped, Lacks
  <2>3. session'.ivres = session.ivres + 1
    <3>1. session.ivres \in Nat /\ session.ivres + 1 < IVMod
      BY <2>2, Numbers DEF IV
    <3>2. QED
      BY <1>2, <3>1, IVCounts
  <2>4. session'.ivres <= iv
    BY <2>2, <2>3, Numbers
  <2>5. Dropped(iv)'
    BY <1>1, <1>2, <2>1, <2>4 DEF Dropped, LackingFrames, Lacks
  <2>6. QED
    BY <2>5 DEF Behind
<1>7. SplitInv'
  BY <1>1, <1>4, <1>6 DEF SplitInv, Whole
<1>8. ApartInv'
  BY <1>1, <1>2, <1>3, <1>4, <1>6 DEF ApartInv, Ahead, Noted
<1>9. QED
  BY <1>5, <1>7, <1>8

\* Every method that is called keeps the invariants.
LEMMA CallSize ==
  ASSUME NonceInv, SessionInv, SizeInv, Call
  PROVE  SizeInv'
<1>1. Noted /\ UNCHANGED <<link, chipside>>
  BY DEF Call
<1>2. CASE SessionStart
  <2>1. (\E r : SendRecv(r)) /\ op' = "cert" /\ UNCHANGED <<session, eph, sealed>>
    BY <1>2 DEF SessionStart, GetCertBlock
  <2>2. QED
    BY <1>1, <2>1, SendSize
<1>3. CASE CommandRefused
  <2>1. Return("command", "ErrNoSession", 0) /\ UNCHANGED <<session, eph, sealed>>
    BY <1>3 DEF CommandRefused
  <2>2. QED
    BY <1>1, <2>1, ReturnSize DEF SizeErrors
<1>4. ASSUME NEW c \in Commands, Encrypt(c)
      PROVE  SizeInv'
  BY <1>1, <1>4, EncryptSize
<1>5. ASSUME NEW id \in Plain \union {"SESSION_ABORT"}, PlainCall(id)
      PROVE  SizeInv'
  <2>1. (\E r : SendRecv(r)) /\ op' \in {"plain", "abort"} /\ UNCHANGED <<session, eph, sealed>>
    BY <1>5 DEF PlainCall
  <2>2. QED
    BY <1>1, <2>1, SendSize
<1>6. CASE Deinit
  <2>1. (\E err : Return("Deinit", err, 0)) /\ session' = NoSession /\ UNCHANGED <<eph, sealed>>
    BY <1>6 DEF Deinit
  <2>2. QED
    BY <1>1, <2>1, ReturnSize
<1>7. QED
  BY <1>2, <1>3, <1>4, <1>5, <1>6 DEF Call

\* And every method that goes on or returns.
LEMMA ContinueSize ==
  ASSUME NonceInv, SessionInv, SizeInv, Continue
  PROVE  SizeInv'
<1>1. Noted /\ UNCHANGED <<link, chipside>>
  BY DEF Continue
<1>2. CASE CertBlock
  <2>1. (\E r : SendRecv(r)) /\ op' = "cert" /\ UNCHANGED <<session, eph, sealed>>
    BY <1>2 DEF CertBlock, GetCertBlock, NonceInv, TypeOK, HostTypes
  <2>2. QED
    BY <1>1, <2>1, SendSize
<1>3. CASE Handshake
  BY <1>1, <1>3, HandshakeSize
<1>4. CASE CertFails \/ HostKeyFails \/ HandshakeFails
  <2>1. \E err : Return("SessionStart", err, 0)
    BY <1>4 DEF CertFails, HostKeyFails, HandshakeFails
  <2>2. UNCHANGED <<eph, sealed>> /\ (session' = session \/ session' = NoSession)
    BY <1>4 DEF CertFails, HostKeyFails, HandshakeFails
  <2>3. QED
    BY <1>1, <2>1, <2>2, ReturnSize
<1>5. CASE Sent
  <2>1. CASE got.err # "nil"
    <3>1. /\ Return("command", got.err, 0) /\ UNCHANGED <<session, eph, sealed>>
          /\ op = "encrypt" /\ L2Returned(got.err)
      BY <1>5, <2>1 DEF Sent, L2Returned
    <3>2. QED
      BY <1>1, <3>1, ReturnSize
  <2>2. CASE got.err = "nil"
    BY <1>1, <1>5, <2>2, SentSize
  <2>3. QED
    BY <2>1, <2>2
<1>6. CASE Decrypted
  BY <1>1, <1>6, DecryptedSize
<1>7. CASE DecryptFails
  <2> DEFINE err == IF got.err = "nil" THEN "ErrCrypto" ELSE got.err
  <2>1. /\ Return("command", err, 0) /\ UNCHANGED <<session, eph, sealed>>
        /\ op = "decrypt" /\ (err # "ErrCrypto" => L2Returned(err))
    BY <1>7 DEF DecryptFails, L2Returned
  <2> HIDE DEF err
  <2>2. QED
    BY <1>1, <2>1, ReturnSize DEF SizeErrors
<1>8. CASE PlainReturns
  <2>1. req.id # "command"
    BY L3Assumption DEF NonceInv, TypeOK, L2Types, Requests
  <2>2. Return(req.id, got.err, 0) /\ UNCHANGED <<session, eph, sealed>>
    BY <1>8 DEF PlainReturns
  <2>3. QED
    BY <1>1, <2>1, <2>2, ReturnSize
<1>9. CASE AbortReturns
  <2>1. Return("SESSION_ABORT", got.err, 0) /\ session' = NoSession /\ UNCHANGED <<eph, sealed>>
    BY <1>9 DEF AbortReturns
  <2>2. QED
    BY <1>1, <2>1, ReturnSize
<1>10. CASE Established
  BY <1>1, <1>10, EstablishedSize
<1>11. QED
  BY <1>2, <1>3, <1>4, <1>5, <1>6, <1>7, <1>8, <1>9, <1>10 DEF Continue

\* Every step of the system keeps the invariants.
LEMMA StepSize ==
  ASSUME NonceInv, SessionInv, SizeInv, [Next]_vars
  PROVE  SizeInv'
<1>1. CASE Restart /\ Noted /\ UNCHANGED <<link, chipside, unseen>>
  <2>1. Return("none", "nil", 0) /\ session' = NoSession /\ UNCHANGED <<eph, sealed>>
    BY <1>1 DEF Restart
  <2>2. QED
    BY <1>1, <2>1, ReturnSize
<1>2. CASE UNCHANGED vars
  <2>1. UNCHANGED <<l2pc, req, got, out, kept, op, session, eph, sealed, sizeError, chip>>
    BY <1>2 DEF vars, l2vars, link, host, chipside
  <2>2. (Together' <=> Together) /\ (Whole' <=> Whole) /\ (Ahead' <=> Ahead)
    BY <2>1 DEF Together, Whole, Ahead
  <2>3. \A iv : Dropped(iv) => Dropped(iv)'
    BY <2>1 DEF Dropped, LackingFrames, Lacks
  <2>4. Behind => Behind'
    BY <2>3 DEF Behind
  <2>5. QED
    BY <2>1, <2>2, <2>4 DEF SizeInv, SplitInv, FreshInv, ContInv, TooLongInv, LiveInv,
      ApartInv, L2Returned
<1>3. QED
  BY <1>1, <1>2, CallSize, ContinueSize, WriteSize, ReadSize, StopSize, RestartSize
     DEF Next, HostStep

\* The invariants hold.
LEMMA SizeInvariant == Spec => []SizeInv
<1>1. Init => SizeInv
  BY DEF Init, L2Init, NoSession, NoChipSession, SizeInv, SplitInv, FreshInv, ContInv,
     TooLongInv, LiveInv, ApartInv, Together, L2Returned
<1>2. QED
  BY <1>1, StepSize, NonceInvariant, SessionInvariant, PTL DEF Spec

-----------------------------------------------------------------------------
\* The theorems.

\* The chip carries out a command at most once, however often l2SendRecv sends
\* its ciphertext and whatever is lost, garbled or restarted meanwhile.
THEOREM CarriedOutOnce == Spec => []AtMostOnce
<1>1. SessionInv => AtMostOnce
  BY DEF SessionInv, ExecutedInv
<1>2. QED
  BY <1>1, SessionInvariant, PTL

\* A command that returns nil returns the chip's answer to this very call, in a
\* session in which l1Write lost no frame.
THEOREM AnswersBelong == Spec => []AnswerIsForThisCall
<1>1. SessionInv => AnswerIsForThisCall
  BY DEF SessionInv
<1>2. QED
  BY <1>1, SessionInvariant, PTL

\* The session that the host holds is the last one the chip agreed to.
THEOREM LatestKey == Spec => []KeyIsLatest
<1>1. SessionInv => KeyIsLatest
  BY DEF SessionInv
<1>2. QED
  BY <1>1, SessionInvariant, PTL

\* In a session that both ends hold, the host is never behind with commands nor
\* ahead with responses.
THEOREM OrderOfNonces == Spec => []NoncesOrdered
<1>1. SessionInv => NoncesOrdered
  BY DEF SessionInv
<1>2. QED
  BY <1>1, SessionInvariant, PTL

\* After a message that did not fit its frame, host and chip are out of step for
\* the rest of the session, whatever the session goes through.
THEOREM OutOfStep == Spec => []SizeErrorBreaksSession
<1>1. NonceInv /\ SessionInv /\ SizeInv => SizeErrorBreaksSession
  <2> SUFFICES ASSUME NonceInv, SessionInv, SizeInv, session.status = "sessionOn", sizeError,
                      chip.key = session.key, Len(sealed) < IVMod
               PROVE  <<session.ivcmd, session.ivres>> # <<chip.ivcmd, chip.ivres>>
    BY DEF SizeErrorBreaksSession
  <2> USE DEF NonceInv, SessionInv, SizeInv
  <2>1. Together
    <3>1. session.key.host > 0
      BY DEF LiveInv, KeyIsLatest
    <3>2. QED
      BY <3>1 DEF Together, NoKey
  <2>2. Behind => session.ivres < chip.ivres
    BY Numbers DEF Behind, Dropped
  <2>3. Ahead => chip.ivcmd < session.ivcmd
    BY DEF Ahead
  <2>4. (session.ivres < chip.ivres) \/ (chip.ivcmd < session.ivcmd)
    BY <2>1, <2>2, <2>3 DEF ApartInv
  <2>5. QED
    BY <2>4, Numbers
<1>2. QED
  BY <1>1, NonceInvariant, SessionInvariant, SizeInvariant, PTL

-----------------------------------------------------------------------------
\* L3 implements CommandService, as long as the counter of nonces does not come
\* to its end.  That results are returned in the order of their calls rests on
\* the order of nonces in the history of ciphertexts.

\* The bound on commands keeps the counter from wrapping.
NoWrap == Len(sealed) <= MaxCalls

\* Commands of a session are sealed with ascending nonces.
SealedInOrder ==
  \A i, j \in DOMAIN sealed :
    i < j /\ sealed[i].key = sealed[j].key => sealed[i].iv < sealed[j].iv

\* Results that the session can still open belong to calls after the last one
\* whose result was returned.
ResultsAhead ==
  session.status = "sessionOn" =>
    \A j \in DOMAIN sealed :
      sealed[j].key = session.key /\ session.ivres <= sealed[j].iv => Service!Latest(given) < j

ServiceInv ==
  /\ NoWrap
  /\ SealedInOrder
  /\ ResultsAhead
  /\ given \in Seq(Nat)
  /\ Service!Latest(given) <= Len(sealed)
  /\ op \in {"encrypt", "decrypt"} => session.status = "sessionOn"

\* A step that seals nothing and returns no result.
Plainly ==
  /\ UNCHANGED <<sealed, given>>
  /\ \/ UNCHANGED session
     \/ session' = NoSession
  /\ op' \in {"encrypt", "decrypt"} => op \in {"encrypt", "decrypt"} /\ UNCHANGED session

\* Such a step keeps the invariant.
LEMMA PlainlyKeeps ==
  ASSUME ServiceInv, Plainly
  PROVE  ServiceInv'
BY DEF ServiceInv, Plainly, NoWrap, SealedInOrder, ResultsAhead, NoSession, Service!Latest

\* The number of the last result.
LEMMA LatestIsCall ==
  ASSUME NEW s \in Seq(Nat)
  PROVE  Service!Latest(s) \in Nat
<1>1. CASE s = <<>>
  BY <1>1 DEF Service!Latest
<1>2. CASE s # <<>>
  <2>1. Len(s) \in 1..Len(s)
    BY <1>2, EmptySeq, LenProperties
  <2>2. s[Len(s)] \in Nat
    BY <2>1, ElementOfSeq
  <2>3. QED
    BY <1>2, <2>2 DEF Service!Latest
<1>3. QED
  BY <1>1, <1>2

\* A command that is sealed is submitted.
LEMMA EncryptSubmits ==
  ASSUME NonceInv, SessionInv, ServiceInv, NEW c \in Commands, Encrypt(c),
         UNCHANGED <<chipside, unseen, given>>
  PROVE  ServiceInv' /\ Service!Submit
<1> USE DEF NonceInv, ServiceInv
<1> DEFINE s == [key |-> session.key, iv |-> session.ivcmd, len |-> c.len + L3Overhead]
           n == Len(sealed)
<1>1. /\ op = "idle" /\ op' = "encrypt" /\ session.status = "sessionOn" /\ n < MaxCalls
      /\ sealed' = Append(sealed, s)
      /\ session' = [session EXCEPT !.ivcmd = l3IncrementIV(@)]
      /\ UNCHANGED <<executed, unseen, given>>
  BY DEF Encrypt, call, chipside
<1>2. /\ Len(sealed') = n + 1 /\ n \in Nat
      /\ DOMAIN sealed = 1..n /\ DOMAIN sealed' = 1..(n + 1)
      /\ \A i \in 1..n : sealed'[i] = sealed[i]
      /\ sealed'[n + 1] = s
  BY <1>1, Numbers DEF TypeOK, HostTypes
<1>3. session'.status = "sessionOn" /\ session'.key = session.key
      /\ session'.ivres = session.ivres
  BY <1>1 DEF TypeOK, HostTypes
<1>4. NoWrap'
  BY <1>1, <1>2, L3Assumption DEF NoWrap
<1>5. \A i \in 1..n : sealed[i].key = session.key => sealed[i].iv < session.ivcmd
  <2>1. n < IVMod
    BY <1>1, <1>2, ServiceAssumption, L3Assumption
  <2>2. QED
    BY <1>1, <1>2, <2>1 DEF NonceIsNew
<1>6. SealedInOrder'
  <2> SUFFICES ASSUME NEW i \in 1..(n + 1), NEW j \in 1..(n + 1), i < j,
                      sealed'[i].key = sealed'[j].key
               PROVE  sealed'[i].iv < sealed'[j].iv
    BY <1>2 DEF SealedInOrder
  <2>1. i \in 1..n
    BY <1>2
  <2>2. CASE j = n + 1
    BY <1>2, <1>5, <2>1, <2>2
  <2>3. CASE j \in 1..n
    BY <1>2, <2>1, <2>3 DEF SealedInOrder
  <2>4. j \in 1..n \/ j = n + 1
    <3>1. n \in Nat
      BY <1>2
    <3>2. QED
      BY <3>1
  <2>5. QED
    BY <2>2, <2>3, <2>4
<1>7. Service!Latest(given)' = Service!Latest(given) /\ Service!Latest(given) \in Nat
  <2>1. given' = given
    BY <1>1
  <2>2. Service!Latest(given)' = Service!Latest(given)
    BY <2>1 DEF Service!Latest
  <2>3. QED
    BY <2>2, LatestIsCall
<1>8. ResultsAhead' /\ Service!Latest(given)' <= Len(sealed')
  <2> SUFFICES ASSUME NEW j \in 1..(n + 1), sealed'[j].key = session.key,
                      session.ivres <= sealed'[j].iv
               PROVE  Service!Latest(given) < j
    BY <1>2, <1>3, <1>7 DEF ResultsAhead
  <2>1. CASE j = n + 1
    BY <1>2, <1>7, <2>1
  <2>2. CASE j \in 1..n
    BY <1>1, <1>2, <2>2 DEF ResultsAhead
  <2>3. QED
    BY <1>2, <2>1, <2>2
<1>9. Service!Submit
  BY <1>1, <1>2 DEF Service!Submit
<1>10. QED
  BY <1>1, <1>3, <1>4, <1>6, <1>8, <1>9

\* A result that is opened succeeds the results before it.
LEMMA DecryptedSucceeds ==
  ASSUME NonceInv, SessionInv, ServiceInv, Decrypted,
         UNCHANGED <<chipside, unseen>>,
         given' = IF op = "decrypt" /\ op' = "idle" /\ ret'.answer # 0
                  THEN Append(given, ret'.answer) ELSE given
  PROVE  ServiceInv' /\ Service!Succeed
<1> USE DEF NonceInv, SessionInv, ServiceInv
<1> DEFINE n == got.data.call
<1>1. /\ op = "decrypt" /\ l2pc = "returned" /\ got.err = "nil"
      /\ got.data.id = "RESULT" /\ got.data.key = session.key
      /\ got.data.iv = session.ivres
      /\ session' = [session EXCEPT !.ivres = l3IncrementIV(@)]
      /\ op' = "idle" /\ ret'.answer = n
      /\ UNCHANGED <<executed, sealed, unseen>>
  BY DEF Decrypted, Opens, Return, chipside
<1>2. Known(got.data) /\ Current(got.data)
  BY <1>1 DEF KnownInv, CurrentInv
<1>3. /\ n \in DOMAIN sealed /\ sealed[n].key = session.key /\ sealed[n].iv = session.ivres
      /\ \E i \in DOMAIN executed : executed[i] = n
      /\ n = Len(sealed) \/ unseen
  BY <1>1, <1>2 DEF Known, Current, call, TypeOK
<1>4. DOMAIN sealed = 1..Len(sealed) /\ Len(sealed) \in Nat /\ n \in Nat /\ n # 0
      /\ n <= Len(sealed)
  BY <1>3, LenProperties DEF TypeOK, HostTypes
<1>5. given' = Append(given, n)
  BY <1>1, <1>4
<1>6. given' \in Seq(Nat) /\ Service!Latest(given)' = n
  <2>1. /\ Append(given, n) \in Seq(Nat)
        /\ Len(Append(given, n)) = Len(given) + 1
        /\ Append(given, n)[Len(given) + 1] = n
        /\ Append(given, n) # <<>>
    BY <1>4
  <2>2. QED
    BY <1>5, <2>1 DEF Service!Latest
<1>7. session.status = "sessionOn"
  BY <1>1
<1>8. Service!Latest(given) < n
  <2>1. session.ivres <= sealed[n].iv
    BY <1>3, Numbers
  <2>2. QED
    BY <1>3, <1>7, <2>1 DEF ResultsAhead
<1>9. l3IncrementIV(session.ivres) = session.ivres + 1
  <2>0. Len(sealed) < IVMod
    BY <1>4, ServiceAssumption, L3Assumption DEF NoWrap
  <2>1. session.ivres < session.ivcmd
    BY <1>3, <1>7, <2>0 DEF NonceIsNew
  <2>2. session.ivres \in Nat /\ session.ivres + 1 < IVMod
    BY <2>1, Numbers DEF IV
  <2>3. QED
    BY <2>2, IVCounts
<1>10. session'.status = "sessionOn" /\ session'.key = session.key
       /\ session'.ivres = session.ivres + 1
  BY <1>1, <1>7, <1>9 DEF TypeOK, HostTypes
<1>11. ResultsAhead'
  <2> SUFFICES ASSUME NEW j \in DOMAIN sealed, sealed[j].key = session.key,
                      session.ivres + 1 <= sealed[j].iv
               PROVE  n < j
    BY <1>1, <1>6, <1>10 DEF ResultsAhead
  <2>1. sealed[j].iv \in Nat /\ session.ivres \in Nat
    BY SealedFields, Numbers
  <2>2. ~(j < n) /\ j # n
    BY <1>3, <2>1, SMTT(30) DEF SealedInOrder
  <2>3. QED
    BY <1>4, <2>2
<1>12. Service!Succeed
  BY <1>1, <1>3, <1>5, <1>8 DEF Service!Succeed
<1>13. QED
  BY <1>1, <1>4, <1>6, <1>10, <1>11, <1>12 DEF NoWrap, SealedInOrder

\* Established ends what was lost, and its key has sealed nothing.
LEMMA EstablishedEstablishes ==
  ASSUME NonceInv, ServiceInv, Established, UNCHANGED <<chipside, given>>
  PROVE  ServiceInv' /\ Service!Establish
<1> USE DEF NonceInv, ServiceInv
<1>1. /\ op = "handshake" /\ op' = "idle" /\ unseen' = FALSE
      /\ session'.key.host = eph
      /\ UNCHANGED <<sealed, executed, given>>
  BY DEF Established, Return, chipside
<1>2. \A i \in DOMAIN sealed : sealed[i].key.host < eph /\ sealed[i].key.host \in Nat
  BY <1>1, SealedFields DEF HandshakeIsNew
<1>3. \A i \in DOMAIN sealed : sealed[i].key # session'.key
  BY <1>1, <1>2, Numbers
<1>4. ResultsAhead'
  BY <1>1, <1>3 DEF ResultsAhead
<1>5. Service!Establish
  BY <1>1 DEF Service!Establish
<1>6. Service!Latest(given)' = Service!Latest(given)
  BY <1>1 DEF Service!Latest
<1>7. QED
  BY <1>1, <1>4, <1>5, <1>6 DEF NoWrap, SealedInOrder

\* The service sees nothing.
ServiceStutters == UNCHANGED Service!vars

\* A write carries the command out, loses it, or is none of the service's
\* business.
LEMMA WriteServes ==
  ASSUME NonceInv, SessionInv, ServiceInv, Write, UNCHANGED given
  PROVE  ServiceInv' /\ (Service!CarryOut \/ Service!Lose \/ ServiceStutters)
<1> USE DEF NonceInv, SessionInv
<1>1. /\ UNCHANGED <<op, session, sealed, given, call>>
      /\ op # "decrypt"
      /\ unseen' = unseen \/ (unseen' = TRUE /\ UNCHANGED chipside)
  BY WriteLeads DEF host, call, Write, ChipMisses
<1>2. ServiceInv'
  BY <1>1, PlainlyKeeps DEF Plainly
<1>3. CASE unseen' = TRUE /\ UNCHANGED chipside
  BY <1>1, <1>2, <1>3 DEF Service!Lose, chipside
<1>4. CASE unseen' = unseen /\ executed' = executed
  BY <1>1, <1>2, <1>4 DEF ServiceStutters, Service!vars
<1>5. CASE unseen' = unseen /\ cur.id = "ENCRYPTED_CMD" /\ ChipExecutes(cur)
  <2>1. /\ op = "encrypt" /\ executed' = Append(executed, call)
        /\ \A i \in DOMAIN executed : executed[i] # call
    BY <1>5, Executing
  <2>2. Service!Latest(executed) < call
    <3>1. CASE executed = <<>>
      <4>1. call \in DOMAIN sealed /\ DOMAIN sealed = 1..Len(sealed)
        BY <1>5, Executing, LenProperties DEF TypeOK, HostTypes
      <4>2. QED
        BY <3>1, <4>1, Numbers DEF Service!Latest
    <3>2. CASE executed # <<>>
      <4>1. Len(executed) \in DOMAIN executed
        BY <3>2, Numbers, EmptySeq
      <4>2. executed[Len(executed)] \in Nat
        BY <4>1, Numbers, ElementOfSeq
      <4>3. executed[Len(executed)] <= call /\ executed[Len(executed)] # call
        BY <2>1, <4>1 DEF ExecutedInv
      <4>4. executed[Len(executed)] < call
        BY <4>2, <4>3, Numbers
      <4>5. QED
        BY <3>2, <4>4 DEF Service!Latest
    <3>3. QED
      BY <3>1, <3>2
  <2>3. QED
    BY <1>1, <1>2, <1>5, <2>1, <2>2 DEF Service!CarryOut, call
<1>6. executed' = executed \/ (cur.id = "ENCRYPTED_CMD" /\ ChipExecutes(cur))
  <2>1. ChipStep
    BY WriteLeads
  <2>2. QED
    BY <2>1 DEF ChipStep, chipside, ChipHandshakes
<1>7. QED
  BY <1>1, <1>2, <1>3, <1>4, <1>5, <1>6

\* A method begins, goes on or returns without a result and without sealing
\* anything: to the service a failure of the call that runs, or nothing.
Quietly ==
  /\ UNCHANGED <<sealed, executed, unseen, given>>
  /\ session' = session \/ session' = NoSession
  /\ \/ op' \in {"encrypt", "decrypt"} /\ op \in {"encrypt", "decrypt"} /\ UNCHANGED session
     \/ op' \notin {"encrypt", "decrypt"}

LEMMA QuietlyServes ==
  ASSUME ServiceInv, Quietly
  PROVE  ServiceInv' /\ (Service!Fail \/ ServiceStutters)
<1>1. ServiceInv'
  BY PlainlyKeeps DEF Plainly, Quietly
<1>2. QED
  BY <1>1 DEF Quietly, Service!Fail, ServiceStutters, Service!vars

\* No method is called while another runs.
LEMMA CallsFromIdle ==
  ASSUME Call
  PROVE  op # "decrypt" \/ (op' # "idle" \/ ret'.answer = 0)
BY DEF Call, SessionStart, CommandRefused, Encrypt, PlainCall, Deinit

\* Any method that is called.
LEMMA CallServes ==
  ASSUME NonceInv, SessionInv, ServiceInv, Call, UNCHANGED given
  PROVE  ServiceInv' /\ (Service!Submit \/ Service!Fail \/ ServiceStutters)
<1>1. UNCHANGED <<link, chipside, unseen>>
  BY DEF Call
<1>2. ASSUME NEW c \in Commands, Encrypt(c)
      PROVE  ServiceInv' /\ Service!Submit
  BY <1>1, <1>2, EncryptSubmits
<1>3. CASE SessionStart \/ CommandRefused \/ Deinit
  BY <1>1, <1>3, QuietlyServes
     DEF SessionStart, CommandRefused, Deinit, Return, Quietly, chipside
<1>4. ASSUME NEW id \in Plain \union {"SESSION_ABORT"}, PlainCall(id)
      PROVE  ServiceInv' /\ (Service!Fail \/ ServiceStutters)
  BY <1>1, <1>4, QuietlyServes DEF PlainCall, Quietly, chipside
<1>5. QED
  BY <1>2, <1>3, <1>4 DEF Call

\* Any method that goes on or returns.
LEMMA ContinueServes ==
  ASSUME NonceInv, SessionInv, ServiceInv, Continue,
         given' = IF op = "decrypt" /\ op' = "idle" /\ ret'.answer # 0
                  THEN Append(given, ret'.answer) ELSE given
  PROVE  /\ ServiceInv'
         /\ Service!Succeed \/ Service!Fail \/ Service!Establish \/ ServiceStutters
<1>1. CASE Established /\ UNCHANGED <<link, chipside>>
  <2>1. given' = given
    BY <1>1 DEF Established
  <2>2. QED
    BY <1>1, <2>1, EstablishedEstablishes
<1> SUFFICES ASSUME UNCHANGED <<link, chipside, unseen>>,
                    \/ CertBlock \/ CertFails \/ HostKeyFails \/ Handshake \/ HandshakeFails
                    \/ Sent \/ Decrypted \/ DecryptFails \/ PlainReturns \/ AbortReturns
             PROVE  /\ ServiceInv'
                    /\ Service!Succeed \/ Service!Fail \/ ServiceStutters
  BY <1>1 DEF Continue
<1>2. CASE Decrypted
  BY <1>2, DecryptedSucceeds
<1>3. CASE CertBlock \/ Handshake \/ HostKeyFails
  BY <1>3, QuietlyServes DEF CertBlock, Handshake, HostKeyFails, CertRead, Return, Quietly, chipside
<1>4. CASE CertFails \/ HandshakeFails \/ PlainReturns \/ AbortReturns
  BY <1>4, QuietlyServes
     DEF CertFails, HandshakeFails, PlainReturns, AbortReturns, Return, Quietly, chipside
<1>5. CASE Sent
  <2>1. given' = given /\ UNCHANGED <<sealed, executed, session>> /\ op = "encrypt"
    BY <1>5 DEF Sent, chipside
  <2>2. op' = "idle" \/ op' = "decrypt"
    BY <1>5 DEF Sent, Return
  <2>3. QED
    BY <2>1, <2>2, QuietlyServes DEF Quietly
<1>6. CASE DecryptFails
  <2>1. op' = "idle" /\ ret'.answer = 0 /\ UNCHANGED <<sealed, executed, session>>
    BY <1>6 DEF DecryptFails, Return, chipside
  <2>2. QED
    BY <2>1, QuietlyServes DEF Quietly
<1>7. QED
  BY <1>2, <1>3, <1>4, <1>5, <1>6

\* A step that only L2 takes, or the chip on its own.
LEMMA RestServes ==
  ASSUME ServiceInv, [ServiceNext]_allvars,
         Read \/ ReadNothing \/ Stop \/ ChipRestarts \/ UNCHANGED allvars
  PROVE  ServiceInv' /\ ServiceStutters
<1>1. UNCHANGED <<op, session, sealed, executed, unseen, ret>>
  BY DEF Read, ReadNothing, Stop, ChipRestarts, allvars, vars, host, chipside
<1>2. given' = given
  BY <1>1 DEF ServiceNext, allvars
<1>3. ServiceInv'
  BY <1>1, <1>2, PlainlyKeeps DEF Plainly
<1>4. QED
  BY <1>1, <1>2, <1>3 DEF ServiceStutters, Service!vars

\* Every step is one of the service, or a stutter.
LEMMA StepServes ==
  ASSUME NonceInv, SessionInv, ServiceInv, [ServiceNext]_allvars
  PROVE  ServiceInv' /\ [Service!Next]_(Service!vars)
<1>1. CASE Read \/ ReadNothing \/ Stop \/ ChipRestarts \/ UNCHANGED allvars
  BY <1>1, RestServes DEF ServiceStutters
<1> SUFFICES ASSUME ServiceNext,
                    \/ Call \/ Write \/ Continue
                    \/ Restart /\ UNCHANGED <<link, chipside, unseen>>
             PROVE  ServiceInv' /\ (Service!Next \/ ServiceStutters)
  BY <1>1 DEF ServiceNext, Next, HostStep, ServiceStutters
<1>2. given' = IF op = "decrypt" /\ op' = "idle" /\ ret'.answer # 0
               THEN Append(given, ret'.answer) ELSE given
  BY DEF ServiceNext
<1>3. CASE Call
  <2>1. given' = given
    BY <1>2, <1>3, CallsFromIdle
  <2>2. QED
    BY <1>3, <2>1, CallServes DEF Service!Next
<1>4. CASE Write
  <2>1. given' = given
    BY <1>2, <1>4, WriteLeads DEF NonceInv, SessionInv
  <2>2. QED
    BY <1>4, <2>1, WriteServes DEF Service!Next
<1>5. CASE Continue
  BY <1>2, <1>5, ContinueServes DEF Service!Next
<1>6. CASE Restart /\ UNCHANGED <<link, chipside, unseen>>
  <2>1. op' = "idle" /\ ret'.answer = 0 /\ session' = NoSession
        /\ UNCHANGED <<sealed, executed, unseen>>
    BY <1>6 DEF Restart, Return, chipside
  <2>2. given' = given
    BY <1>2, <2>1
  <2>3. QED
    BY <2>1, <2>2, QuietlyServes DEF Quietly, Service!Next
<1>7. QED
  BY <1>3, <1>4, <1>5, <1>6

\* Whatever the driver, the chip and the line do, a caller sees commands that
\* are carried out at most once, only while their call runs, and results in
\* the order of the calls, each of its own call while no write was lost.
THEOREM ServiceRefinement == ServiceSpec => ImplementsService
<1>1. ServiceInit => Init
  BY DEF ServiceInit
<1>2. [ServiceNext]_allvars => [Next]_vars
  BY DEF ServiceNext, allvars
<1>3. ServiceSpec => [](NonceInv /\ SessionInv)
  BY <1>1, <1>2, NonceInvariant, SessionInvariant, PTL DEF ServiceSpec, Spec
<1>4. ServiceInit => ServiceInv /\ Service!Init
  <2> SUFFICES ASSUME ServiceInit PROVE ServiceInv /\ Service!Init
    OBVIOUS
  <2>1. /\ op = "idle" /\ sealed = <<>> /\ given = <<>> /\ executed = <<>>
        /\ session.status = "sessionOff" /\ unseen = FALSE
    BY DEF ServiceInit, Init, NoSession
  <2>2. Service!Latest(given) = 0 /\ Len(sealed) = 0 /\ MaxCalls \in Nat
    BY <2>1, L3Assumption DEF Service!Latest
  <2>3. ServiceInv
    BY <2>1, <2>2 DEF ServiceInv, NoWrap, SealedInOrder, ResultsAhead
  <2>4. Service!Init
    BY <2>1, <2>2 DEF Service!Init
  <2>5. QED
    BY <2>3, <2>4
<1>5. NonceInv /\ SessionInv /\ ServiceInv /\ [ServiceNext]_allvars
        => ServiceInv' /\ [Service!Next]_(Service!vars)
  BY StepServes
<1>6. QED
  BY <1>3, <1>4, <1>5, PTL DEF ServiceSpec, ImplementsService, Service!Spec

-----------------------------------------------------------------------------
\* How long a method takes.

\* The longest call of l2SendRecv, with its return: two steps for each attempt, the
\* end of the loop, and the step that uses the result.
CallSteps == 2 * l2TransferRetries + 2

\* Steps of the running call of L2 that are left, see FrameProofs.
L2StepsLeft ==
  CASE l2pc = "send" -> 2 * (l2TransferRetries - tries) + 1
    [] l2pc = "read" -> 2 * (l2TransferRetries - tries) + 2
    [] l2pc = "receive" -> 1
    [] OTHER -> 0

\* Calls of L2 that the method has yet to make: blocks of the store and the handshake,
\* or the receiving of a result.
CallsLeft ==
  CASE op = "cert" -> certBlocks - block
    [] op = "encrypt" -> 1
    [] OTHER -> 0

MethodStepsLeft == IF op = "idle" THEN 0 ELSE CallSteps * CallsLeft + L2StepsLeft + 1

\* A method takes at most as many steps as the longest call for each block of the store
\* and one call more, and each step the driver takes in it uses one up.
MethodIsBounded ==
  [][IF op = "idle" THEN MethodStepsLeft' \in 0..(CallSteps * (certBlocks + 1))
     ELSE MethodStepsLeft' \in 0..(MethodStepsLeft - 1)]_<<l2vars, host>>

\* Products with a number of calls.
Calls(n) == CallSteps * n

LEMMA CallsCount ==
  /\ CallSteps \in Nat /\ CallSteps = 2 * l2TransferRetries + 2 /\ l2TransferRetries >= 1
  /\ \A n \in Nat : /\ Calls(n) \in Nat
                    /\ n > 0 => Calls(n) = Calls(n - 1) + CallSteps
                    /\ n > 0 => Calls(n) >= CallSteps
<1>1. CallSteps \in Nat /\ CallSteps = 2 * l2TransferRetries + 2 /\ l2TransferRetries >= 1
  BY L2Assumption DEF CallSteps
<1>2. \A c, n \in Nat : c * n \in Nat /\ (n > 0 => c * n = c * (n - 1) + c /\ c * (n - 1) >= 0)
  OBVIOUS
<1>3. ASSUME NEW n \in Nat, n > 0
      PROVE  Calls(n) = Calls(n - 1) + CallSteps /\ Calls(n) >= CallSteps
  <2>1. CallSteps * n = CallSteps * (n - 1) + CallSteps /\ CallSteps * (n - 1) >= 0
    BY <1>1, <1>2, <1>3
  <2>2. QED
    BY <1>1, <2>1 DEF Calls
<1>4. QED
  BY <1>1, <1>2, <1>3 DEF Calls

\* What is left, from the place in L2 and from the method.
LeftValues ==
  /\ l2pc = "send" => L2StepsLeft = 2 * (l2TransferRetries - tries) + 1
  /\ l2pc = "read" => L2StepsLeft = 2 * (l2TransferRetries - tries) + 2
  /\ l2pc = "receive" => L2StepsLeft = 1
  /\ l2pc \in {"idle", "returned", "panicked"} => L2StepsLeft = 0
  /\ L2StepsLeft \in Nat
  /\ op = "cert" => CallsLeft = certBlocks - block
  /\ op = "encrypt" => CallsLeft = 1
  /\ op \in {"idle", "handshake", "decrypt", "plain", "abort"} => CallsLeft = 0
  /\ CallsLeft \in Nat
  /\ op = "idle" => MethodStepsLeft = 0
  /\ op # "idle" => MethodStepsLeft = Calls(CallsLeft) + L2StepsLeft + 1
  /\ MethodStepsLeft \in Nat

LEMMA Leftovers ==
  ASSUME TypeOK
  PROVE  LeftValues
<1>1. /\ l2pc = "send" => L2StepsLeft = 2 * (l2TransferRetries - tries) + 1
      /\ l2pc = "read" => L2StepsLeft = 2 * (l2TransferRetries - tries) + 2
      /\ l2pc = "receive" => L2StepsLeft = 1
      /\ l2pc \in {"idle", "returned", "panicked"} => L2StepsLeft = 0
  BY DEF L2StepsLeft
<1>2. L2StepsLeft \in Nat
  BY <1>1, L2Assumption DEF TypeOK, L2Types
<1>3. /\ op = "cert" => CallsLeft = certBlocks - block
      /\ op = "encrypt" => CallsLeft = 1
      /\ op \in {"idle", "handshake", "decrypt", "plain", "abort"} => CallsLeft = 0
  BY DEF CallsLeft
<1>4. CallsLeft \in Nat
  BY <1>3, L3Assumption DEF TypeOK, HostTypes
<1>5. /\ op = "idle" => MethodStepsLeft = 0
      /\ op # "idle" => MethodStepsLeft = Calls(CallsLeft) + L2StepsLeft + 1
  BY DEF MethodStepsLeft, Calls
<1>6. MethodStepsLeft \in Nat
  BY <1>2, <1>4, <1>5, CallsCount
<1>7. QED
  BY <1>1, <1>2, <1>3, <1>4, <1>5, <1>6 DEF LeftValues

LEMMA LeftoversNext == TypeOK' => LeftValues'
<1>1. TypeOK => LeftValues
  BY Leftovers
<1>2. QED
  BY <1>1, PTL

\* A step of L2, in the method that runs.
LEMMA L2StepCounts ==
  ASSUME TypeOK, TypeOK', UNCHANGED host, op # "idle",
         \/ Exhausted \/ TooLong \/ Written \/ WriteFails
         \/ ReadFails("ErrL1SPI") \/ ReadFails("ErrL1Timeout")
         \/ \E f \in Frames : ReadFrame(f)
  PROVE  MethodStepsLeft' \in 0..(MethodStepsLeft - 1)
<1> DEFINE R == l2TransferRetries
<1>1. R \in Nat /\ tries \in Nat /\ tries <= R
  BY L2Assumption DEF TypeOK, L2Types
<1>2. op' = op /\ op' # "idle" /\ CallsLeft' = CallsLeft
  BY DEF host, CallsLeft
<1>3. \/ l2pc \in {"send", "read", "receive"} /\ l2pc' \in {"returned", "panicked"}
      \/ l2pc = "send" /\ l2pc' = "read" /\ tries < R /\ tries' = tries + 1
      \/ l2pc = "read" /\ l2pc' = "send" /\ tries' = tries
  BY DEF Exhausted, TooLong, Written, WriteFails, Writing, ReadFails, ReadFrame, Reading,
         Retry, L2Return
<1>4. L2StepsLeft' < L2StepsLeft
  <2>1. CASE l2pc \in {"send", "read", "receive"} /\ l2pc' \in {"returned", "panicked"}
    BY <1>1, <2>1, Leftovers, LeftoversNext DEF LeftValues
  <2>2. CASE l2pc = "send" /\ l2pc' = "read" /\ tries < R /\ tries' = tries + 1
    <3>1. L2StepsLeft = 2 * (R - tries) + 1 /\ L2StepsLeft' = 2 * (R - (tries + 1)) + 2
      BY <2>2, Leftovers, LeftoversNext DEF LeftValues
    <3>2. QED
      BY <1>1, <2>2, <3>1
  <2>3. CASE l2pc = "read" /\ l2pc' = "send" /\ tries' = tries
    <3>1. L2StepsLeft = 2 * (R - tries) + 2 /\ L2StepsLeft' = 2 * (R - tries) + 1
      BY <2>3, Leftovers, LeftoversNext DEF LeftValues
    <3>2. QED
      BY <1>1, <3>1
  <2>4. QED
    BY <1>3, <2>1, <2>2, <2>3
<1>5. /\ MethodStepsLeft = Calls(CallsLeft) + L2StepsLeft + 1
      /\ MethodStepsLeft' = Calls(CallsLeft) + L2StepsLeft' + 1
      /\ Calls(CallsLeft) \in Nat /\ L2StepsLeft \in Nat /\ L2StepsLeft' \in Nat
  BY <1>2, Leftovers, LeftoversNext, CallsCount DEF LeftValues
<1>6. QED
  BY <1>4, <1>5

\* A method is called: what it has left to do is bounded.
LEMMA CallCounts ==
  ASSUME TypeOK, TypeOK', Call
  PROVE  op = "idle" /\ MethodStepsLeft' \in 0..(CallSteps * (certBlocks + 1))
<1>1. op = "idle"
  BY DEF Call, SessionStart, CommandRefused, Encrypt, PlainCall, Deinit
<1>2. /\ certBlocks \in Nat /\ certBlocks >= 1
      /\ Calls(0) = 0 /\ Calls(1) = CallSteps /\ Calls(certBlocks) >= CallSteps
      /\ Calls(certBlocks + 1) = Calls(certBlocks) + CallSteps
      /\ Calls(certBlocks) \in Nat /\ CallSteps \in Nat
      /\ CallSteps = 2 * l2TransferRetries + 2 /\ l2TransferRetries \in Nat
  <2>1. certBlocks \in Nat /\ certBlocks >= 1 /\ l2TransferRetries \in Nat
    BY L2Assumption, L3Assumption
  <2>2. Calls(0) = 0
    BY CallsCount DEF Calls
  <2>3. (certBlocks + 1) \in Nat /\ certBlocks + 1 > 0 /\ (certBlocks + 1) - 1 = certBlocks
    BY <2>1
  <2>4. Calls(certBlocks + 1) = Calls(certBlocks) + CallSteps
    BY <2>3, CallsCount
  <2>5. Calls(1) = CallSteps
    BY CallsCount DEF Calls
  <2>6. QED
    BY <2>1, <2>2, <2>4, <2>5, CallsCount
<1>3. CASE op' = "idle"
  <2>1. MethodStepsLeft' = 0
    BY <1>3, LeftoversNext DEF LeftValues
  <2>2. QED
    BY <1>1, <1>2, <2>1 DEF Calls
<1>4. CASE op' # "idle"
  <2>1. /\ l2pc' = "send" /\ tries' = 0
        /\ \/ op' = "cert" /\ block' = 0
           \/ op' \in {"encrypt", "plain", "abort"}
    <3>1. CASE SessionStart
      BY <3>1 DEF SessionStart, GetCertBlock, SendRecv
    <3>2. CASE \E c \in Commands : Encrypt(c)
      BY <3>2 DEF Encrypt, SendRecv
    <3>3. CASE \E id \in Plain \union {"SESSION_ABORT"} : PlainCall(id)
      BY <3>3 DEF PlainCall, SendRecv
    <3>4. CASE CommandRefused \/ Deinit
      BY <1>4, <3>4 DEF CommandRefused, Deinit, Return
    <3>5. QED
      BY <3>1, <3>2, <3>3, <3>4 DEF Call
  <2>2. L2StepsLeft' = 2 * (l2TransferRetries - 0) + 1
    BY <2>1, LeftoversNext DEF LeftValues
  <2>3. CallsLeft' \in {0, 1, certBlocks}
    BY <1>2, <2>1, LeftoversNext DEF LeftValues
  <2>4. Calls(CallsLeft') \in Nat /\ Calls(CallsLeft') <= Calls(certBlocks)
    BY <1>2, <2>3
  <2>5. MethodStepsLeft' = Calls(CallsLeft') + L2StepsLeft' + 1
    BY <1>4, LeftoversNext DEF LeftValues
  <2>6. MethodStepsLeft' = Calls(CallsLeft') + CallSteps
    BY <1>2, <2>2, <2>4, <2>5
  <2>7. MethodStepsLeft' \in 0..Calls(certBlocks + 1)
    BY <1>2, <2>4, <2>6
  <2>8. QED
    BY <1>1, <2>7 DEF Calls
<1>5. QED
  BY <1>3, <1>4

\* A method goes on: it makes one of the calls that were left, or returns.
LEMMA ContinueCounts ==
  ASSUME TypeOK, TypeOK', Continue
  PROVE  op # "idle" /\ MethodStepsLeft' \in 0..(MethodStepsLeft - 1)
<1>1. op # "idle" /\ l2pc = "returned"
  BY DEF Continue, CertBlock, CertFails, HostKeyFails, CertRead, Handshake, HandshakeFails,
         Sent, Decrypted, DecryptFails, PlainReturns, AbortReturns, Established
<1>2. \/ op' = "idle"
      \/ /\ op = "cert" /\ op' = "cert" /\ block + 1 < certBlocks /\ block' = block + 1
         /\ l2pc' = "send" /\ tries' = 0
      \/ /\ op = "cert" /\ op' = "handshake" /\ block + 1 = certBlocks
         /\ l2pc' = "send" /\ tries' = 0
      \/ op = "encrypt" /\ op' = "decrypt" /\ l2pc' = "receive"
  <2>1. CASE CertBlock
    BY <2>1 DEF CertBlock, GetCertBlock, SendRecv
  <2>2. CASE Handshake
    BY <2>2 DEF Handshake, CertRead, SendRecv
  <2>3. CASE Sent
    BY <2>3 DEF Sent, Receive, Return
  <2>4. CASE CertFails \/ HostKeyFails \/ HandshakeFails \/ Decrypted \/ DecryptFails
             \/ PlainReturns \/ AbortReturns \/ Established
    BY <2>4 DEF CertFails, HostKeyFails, HandshakeFails, Decrypted, DecryptFails,
                PlainReturns, AbortReturns, Established, Return
  <2>5. QED
    BY <2>1, <2>2, <2>3, <2>4 DEF Continue
<1>3. /\ MethodStepsLeft = Calls(CallsLeft) + 1
      /\ CallsLeft \in Nat /\ Calls(CallsLeft) \in Nat
      /\ MethodStepsLeft' \in Nat
  BY <1>1, Leftovers, LeftoversNext, CallsCount DEF LeftValues
<1>4. /\ CallSteps \in Nat /\ CallSteps = 2 * l2TransferRetries + 2
      /\ l2TransferRetries \in Nat /\ l2TransferRetries >= 1
      /\ certBlocks \in Nat /\ block \in Nat /\ Calls(0) = 0 /\ Calls(1) = CallSteps
  BY CallsCount, L2Assumption, L3Assumption DEF TypeOK, HostTypes, Calls
<1>5. MethodStepsLeft' <= Calls(CallsLeft)
  <2>1. ASSUME op' = "idle" PROVE MethodStepsLeft' <= Calls(CallsLeft)
    BY <1>3, <2>1, LeftoversNext DEF LeftValues
  <2>2. ASSUME op = "cert", op' = "cert", block + 1 < certBlocks, block' = block + 1,
               l2pc' = "send", tries' = 0
        PROVE  MethodStepsLeft' <= Calls(CallsLeft)
    <3>1. CallsLeft = certBlocks - block /\ CallsLeft' = certBlocks - (block + 1)
      BY <2>2, Leftovers, LeftoversNext DEF LeftValues
    <3>2. CallsLeft' = CallsLeft - 1 /\ CallsLeft > 0
      BY <1>4, <2>2, <3>1
    <3>3. Calls(CallsLeft) = Calls(CallsLeft - 1) + CallSteps /\ Calls(CallsLeft - 1) \in Nat
      BY <1>3, <3>2, CallsCount
    <3>4. L2StepsLeft' = 2 * (l2TransferRetries - 0) + 1
      BY <2>2, LeftoversNext DEF LeftValues
    <3>5. MethodStepsLeft' = Calls(CallsLeft - 1) + L2StepsLeft' + 1
      BY <2>2, <3>2, LeftoversNext DEF LeftValues
    <3>6. QED
      BY <1>4, <3>3, <3>4, <3>5
  <2>3. ASSUME op = "cert", op' = "handshake", block + 1 = certBlocks,
               l2pc' = "send", tries' = 0
        PROVE  MethodStepsLeft' <= Calls(CallsLeft)
    <3>1. CallsLeft = certBlocks - block /\ CallsLeft' = 0
      BY <2>3, Leftovers, LeftoversNext DEF LeftValues
    <3>2. CallsLeft = 1
      BY <1>4, <2>3, <3>1
    <3>3. L2StepsLeft' = 2 * (l2TransferRetries - 0) + 1
      BY <2>3, LeftoversNext DEF LeftValues
    <3>4. MethodStepsLeft' = 0 + L2StepsLeft' + 1
      BY <1>4, <2>3, <3>1, LeftoversNext DEF LeftValues
    <3>5. QED
      BY <1>4, <3>2, <3>3, <3>4
  <2>4. ASSUME op = "encrypt", op' = "decrypt", l2pc' = "receive"
        PROVE  MethodStepsLeft' <= Calls(CallsLeft)
    <3>1. CallsLeft = 1 /\ CallsLeft' = 0 /\ L2StepsLeft' = 1
      BY <2>4, Leftovers, LeftoversNext DEF LeftValues
    <3>2. MethodStepsLeft' = 0 + 1 + 1
      BY <1>4, <2>4, <3>1, LeftoversNext DEF LeftValues
    <3>3. QED
      BY <1>4, <3>1, <3>2
  <2>5. QED
    BY <1>2, <2>1, <2>2, <2>3, <2>4
<1>6. QED
  BY <1>1, <1>3, <1>5

LEMMA StepCounts ==
  ASSUME TypeOK, TypeOK', Next, <<l2vars, host>>' # <<l2vars, host>>
  PROVE  IF op = "idle" THEN MethodStepsLeft' \in 0..(CallSteps * (certBlocks + 1))
         ELSE MethodStepsLeft' \in 0..(MethodStepsLeft - 1)
<1>1. CASE Call
  BY <1>1, CallCounts
<1>2. CASE Continue
  BY <1>2, ContinueCounts
<1>3. CASE Write \/ Read \/ ReadNothing \/ Stop
  <2>1. /\ UNCHANGED host
        /\ \/ Exhausted \/ TooLong \/ Written \/ WriteFails
           \/ ReadFails("ErrL1SPI") \/ ReadFails("ErrL1Timeout")
           \/ \E f \in Frames : ReadFrame(f)
    <3>1. CASE Write
      BY <3>1 DEF Write
    <3>2. CASE Read
      <4>1. Gives /\ UNCHANGED host
        BY <3>2 DEF Read
      <4>2. OnWire(Head(out)) \subseteq Frames
        BY <4>1, OnWireType, GivesType DEF TypeOK
      <4>3. QED
        BY <3>2, <4>1, <4>2 DEF Read
    <3>3. CASE ReadNothing
      BY <3>3 DEF ReadNothing
    <3>4. CASE Stop
      BY <3>4 DEF Stop
    <3>5. QED
      BY <1>3, <3>1, <3>2, <3>3, <3>4
  <2>2. op # "idle"
    BY <2>1 DEF Exhausted, TooLong, Written, WriteFails, Writing, ReadFails, ReadFrame,
                Reading, TypeOK, HostTypes
  <2>3. QED
    BY <2>1, <2>2, L2StepCounts
<1>4. CASE Restart /\ UNCHANGED <<link, chipside, unseen>>
  <2>1. op # "idle" /\ op' = "idle"
    BY <1>4 DEF Restart, Return
  <2>2. MethodStepsLeft' = 0 /\ MethodStepsLeft \in Nat /\ MethodStepsLeft >= 1
    <3>1. MethodStepsLeft = Calls(CallsLeft) + L2StepsLeft + 1
          /\ Calls(CallsLeft) \in Nat /\ L2StepsLeft \in Nat
      BY <2>1, Leftovers, CallsCount DEF LeftValues
    <3>2. QED
      BY <2>1, <3>1, LeftoversNext DEF LeftValues
  <2>3. MethodStepsLeft' \in 0..(MethodStepsLeft - 1)
    BY <2>2
  <2>4. QED
    BY <2>1, <2>3
<1>5. CASE ChipRestarts
  BY <1>5 DEF ChipRestarts
<1>6. QED
  BY <1>1, <1>2, <1>3, <1>4, <1>5 DEF Next, HostStep

\* However the chip, the line and a caller behave, no method of Device takes more than
\* certBlocks + 1 times the steps of the longest L2 call: there is no loop around the
\* retries of L2 that could start them over.
THEOREM BoundedMethods == Spec => MethodIsBounded
<1>1. ASSUME TypeOK, TypeOK', [Next]_vars
      PROVE  [IF op = "idle" THEN MethodStepsLeft' \in 0..(CallSteps * (certBlocks + 1))
              ELSE MethodStepsLeft' \in 0..(MethodStepsLeft - 1)]_<<l2vars, host>>
  <2>1. CASE Next
    BY <1>1, <2>1, StepCounts
  <2>2. CASE UNCHANGED vars
    BY <2>2 DEF vars
  <2>3. QED
    BY <1>1, <2>1, <2>2
<1>2. QED
  BY <1>1, Typing, PTL DEF Spec, MethodIsBounded
=============================================================================
