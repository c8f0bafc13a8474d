------------------------------ MODULE L2System ------------------------------
(***************************************************************************)
(* L2 against the chip: a host that issues requests with l2SendRecv and    *)
(* reads unsolicited frames with l2Receive, a noisy line, a transport that *)
(* may fail and a chip that may be slow, garble, refuse or restart.        *)
(***************************************************************************)
EXTENDS L2, Chip

CONSTANT Requests   \* records with an id and a len

ASSUME L2SystemAssumption == Resend \notin Requests

VARIABLES
  served,   \* history: how often the chip carried out req in this call
  unseen,   \* history: a write of this call never reached the chip
  misled    \* history: in this call a STATUS was changed on the line, or
            \* the chip could not check a RESEND

history == <<served, unseen, misled>>
vars == <<l2vars, link, history>>

\* What l2SendRecv sends is the caller's request or a RESEND, in at most
\* l2TransferRetries attempts, and data comes without an error.
TypeOK ==
  /\ l2pc \in {"idle", "send", "read", "receive", "returned", "panicked"}
  /\ req \in Requests \union {Resend}
  /\ cur \in {req, Resend}
  /\ tries \in 0..l2TransferRetries
  /\ got.err = "nil" \/ got.data = None
  /\ served \in 0..l2TransferRetries
  /\ unseen \in BOOLEAN
  /\ misled \in BOOLEAN

Init ==
  /\ L2Init
  /\ ChipInit
  /\ served = 0
  /\ unseen = FALSE
  /\ misled = FALSE

-----------------------------------------------------------------------------

Call ==
  /\ l2pc = "idle"
  /\ \/ \E r \in Requests : SendRecv(r)
     \/ Receive
  /\ served' = 0
  /\ unseen' = FALSE
  /\ misled' = FALSE
  /\ UNCHANGED link

\* The caller has used what the call returned, or the process is started
\* again after a panic.
Done ==
  /\ l2pc \in {"returned", "panicked"}
  /\ L2Done
  /\ UNCHANGED <<link, history>>

Stop ==
  /\ Exhausted \/ TooLong
  /\ UNCHANGED <<link, history>>

\* The chip takes the current request: it carries it out and answers, gives
\* its last frame again, or refuses.
Takes ==
  \/ cur = Resend /\ Resends /\ UNCHANGED <<served, misled>>
  \/ /\ cur # Resend
     /\ Answers(<<Frame("REQUEST_OK", 1, cur.id)>>)
     /\ served' = served + 1
     /\ UNCHANGED misled
  \/ cur # Resend /\ Refuses /\ UNCHANGED <<served, misled>>
  \/ TakesGarbled /\ misled' = (misled \/ cur = Resend) /\ UNCHANGED served

Write ==
  \/ (Written \/ WriteFails) /\ Takes /\ UNCHANGED unseen
  \/ Written /\ SeesNothing /\ unseen' = TRUE /\ UNCHANGED <<served, misled>>
  \/ WriteFails /\ UNCHANGED <<link, history>>

Read ==
  /\ Gives
  /\ \/ \E f \in OnWire(Head(out)) :
          ReadFrame(f) /\ misled' = (misled \/ f.status # Head(out).status)
     \/ ReadFails("ErrL1SPI") /\ UNCHANGED misled
  /\ UNCHANGED <<served, unseen>>

\* The chip has nothing to give yet, or the transport fails before it does.
ReadNothing ==
  /\ ReadFails("ErrL1Timeout") \/ ReadFails("ErrL1SPI")
  /\ UNCHANGED <<link, history>>

ChipRestarts ==
  /\ Resets
  /\ UNCHANGED <<l2vars, history>>

HostStep == Stop \/ Write \/ Read \/ ReadNothing

Next ==
  \/ Call
  \/ Done
  \/ HostStep
  \/ ChipRestarts

Spec == Init /\ [][Next]_vars

-----------------------------------------------------------------------------

Answered == l2pc = "returned" /\ got.err = "nil" /\ req # Resend

\* Data that l2SendRecv returns is the chip's answer to the request of this
\* very call, unless a write of this call was lost without an error (l1Write
\* returns nil after its last poll, l1.go:52) and an older answer was read.
AnswerIsForThisRequest ==
  Answered /\ ~unseen => got.data = req.id /\ served > 0

\* The chip carries out a request a second time only if the CRC_ERR that made
\* l2SendRecv send it again was not about the request: the line changed the
\* STATUS, which l2FrameCheck takes without its CRC, or it was the answer to
\* a garbled RESEND.
RepeatedOnlyWhenMisled == served > 1 => misled

\* A frame that the line damaged is reported to the caller with an error, as
\* l2.go:19 promises of the frames with a payload ("For STATUS codes that
\* indicate valid frames (REQUEST_OK, RESULT_OK) the CRC is verified").
DamageIsReported == l2pc # "panicked"
=============================================================================
