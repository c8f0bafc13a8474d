--------------------------------- MODULE L2 ---------------------------------
(***************************************************************************)
(* The L2 layer of the driver, tropic01/l2.go, as the host executes it:    *)
(* l2SendRecv with its retries, l2Receive, l2Send and l2FrameCheck.  A     *)
(* call of l1Write or l1Read is one step here, with the outcomes L1 shows  *)
(* it to have.  The module has no behaviour of its own: what the chip does *)
(* with a frame is conjoined by the modules that compose it (L2System, L3) *)
(* with Written, WriteFails, ReadFrame and ReadFails.                      *)
(***************************************************************************)
EXTENDS Naturals

CONSTANTS
  l2MaxDataSize,       \* the longest payload of a request
  l2TransferRetries,   \* attempts of l2SendRecv
  None                 \* no payload

ASSUME L2Assumption ==
  /\ l2MaxDataSize \in Nat
  /\ l2TransferRetries \in Nat \ {0}

VARIABLES
  l2pc,   \* "idle", "send", "read", "receive", "returned" or "panicked"
  req,    \* reqID and payload of the call
  cur,    \* currentReqID and currentPayload
  tries,  \* iterations of l2SendRecv's loop started
  got     \* what the call returned

l2vars == <<l2pc, req, cur, tries, got>>

\* A request is a record with at least an id and the length of its payload.
Resend == [id |-> "RESEND", len |-> 0]

\* A response frame as l1Read leaves it in d.l2buf.
Frame(status, len, data) ==
  [status |-> status, len |-> len, crcOK |-> TRUE, data |-> data]

\* The errors that stand for a STATUS byte of a frame without payload.
StatusError ==
  [REQUEST_CONT |-> "ErrL2ReqCont",  RESULT_CONT |-> "ErrL2ResCont",
   HSK_ERR      |-> "ErrL2HSKErr",   NO_SESSION  |-> "ErrL2NoSession",
   TAG_ERR      |-> "ErrL2TagErr",   CRC_ERR     |-> "ErrL2CRCErr",
   GEN_ERR      |-> "ErrL2GenErr",   NO_RESP     |-> "ErrL2NoResp",
   UNKNOWN_REQ  |-> "ErrL2UnknownReq",
   RESP_DISABLED |-> "ErrL2RespDisabled"]

\* A check that trusts the payload it is given.
l2FrameCheckUnverified(f) ==
  IF f.status \in {"REQUEST_OK", "RESULT_OK"} THEN "nil"
  ELSE IF f.status \in DOMAIN StatusError THEN StatusError[f.status]
  ELSE "ErrL2StatusUnknown"

\* The CRC of a frame with a payload is looked up at the place its LEN byte
\* says, which a LEN above l2MaxDataSize puts outside d.l2buf: the index
\* expression panics.  The other statuses are taken without their CRC.
l2FrameCheck(f) ==
  IF f.status \in {"REQUEST_OK", "RESULT_OK"}
  THEN IF f.len > l2MaxDataSize THEN "panic"
       ELSE IF f.crcOK THEN "nil" ELSE "ErrL2CRCIn"
  ELSE IF f.status \in DOMAIN StatusError THEN StatusError[f.status]
  ELSE "ErrL2StatusUnknown"

NoResult == [err |-> "nil", data |-> None]

L2Init ==
  /\ l2pc = "idle"
  /\ req = Resend
  /\ cur = Resend
  /\ tries = 0
  /\ got = NoResult

-----------------------------------------------------------------------------

L2Return(err, data) ==
  /\ l2pc' = "returned"
  /\ got' = [err |-> err, data |-> data]

\* The caller has used the result; the locals of the call are gone.
L2Done ==
  /\ l2pc' = "idle"
  /\ req' = Resend
  /\ cur' = Resend
  /\ tries' = 0
  /\ got' = NoResult

\* l2SendRecv(d, reqID, payload) is called with the request r.
SendRecv(r) ==
  /\ l2pc' = "send"
  /\ req' = r
  /\ cur' = r
  /\ tries' = 0
  /\ got' = NoResult

\* l2Receive(d) is called.
Receive ==
  /\ l2pc' = "receive"
  /\ req' = Resend
  /\ cur' = Resend
  /\ tries' = 0
  /\ got' = NoResult

\* The loop is over: every attempt met a recoverable error.
Exhausted ==
  /\ l2pc = "send"
  /\ tries = l2TransferRetries
  /\ L2Return("ErrL2StatusUnknown", None)
  /\ UNCHANGED <<req, cur, tries>>

\* l2Send refuses a payload that does not fit a frame.
TooLong ==
  /\ l2pc = "send"
  /\ tries < l2TransferRetries
  /\ cur.len > l2MaxDataSize
  /\ L2Return("ErrL2ReqTooLong", None)
  /\ UNCHANGED <<req, cur, tries>>

\* A loop that makes an attempt too many.
WritingOnceMore ==
  /\ l2pc = "send"
  /\ tries <= l2TransferRetries
  /\ cur.len <= l2MaxDataSize

Writing ==
  /\ l2pc = "send"
  /\ tries < l2TransferRetries
  /\ cur.len <= l2MaxDataSize

\* A write that is not counted as an attempt.
WrittenUncounted ==
  /\ Writing
  /\ l2pc' = "read"
  /\ UNCHANGED <<req, cur, tries, got>>

\* l1Write returns nil, whether or not the chip was ever READY.
Written ==
  /\ Writing
  /\ tries' = tries + 1
  /\ l2pc' = "read"
  /\ UNCHANGED <<req, cur, got>>

\* l1Write fails (ALARM, or an error of the transport).
WriteFails ==
  /\ Writing
  /\ L2Return("ErrL1SPI", None)
  /\ UNCHANGED <<req, cur, tries>>

Reading == l2pc \in {"read", "receive"}

\* l1Read fails: no response within its polls, ALARM or a transport error.
ReadFails(err) ==
  /\ Reading
  /\ L2Return(err, None)
  /\ UNCHANGED <<req, cur, tries>>

\* A retry that sends the request again in every case.
RetryRequest(err) ==
  /\ l2pc' = "send"
  /\ cur' = req
  /\ UNCHANGED <<req, tries, got>>

\* The switch of l2SendRecv on a recoverable error of the chip: the request
\* is sent again when the chip could not check it, the answer is asked for
\* again when the chip reports a general error.
Retry(err) ==
  /\ l2pc' = "send"
  /\ cur' = IF err = "ErrL2GenErr" THEN Resend ELSE req
  /\ UNCHANGED <<req, tries, got>>

\* l1Read leaves the frame f in d.l2buf, and l2FrameCheck decides.
ReadFrame(f) ==
  LET err == l2FrameCheck(f) IN
  /\ Reading
  /\ \/ err = "panic" /\ l2pc' = "panicked" /\ UNCHANGED <<req, cur, tries, got>>
     \/ err = "nil" /\ L2Return("nil", f.data) /\ UNCHANGED <<req, cur, tries>>
     \/ /\ l2pc = "read"
        /\ err \in {"ErrL2CRCErr", "ErrL2GenErr"}
        /\ Retry(err)
     \/ /\ err \notin {"nil", "panic"}
        /\ l2pc = "read" => err \notin {"ErrL2CRCErr", "ErrL2GenErr"}
        /\ L2Return(err, None)
        /\ UNCHANGED <<req, cur, tries>>

=============================================================================
