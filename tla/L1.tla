--------------------------------- MODULE L1 ---------------------------------
(***************************************************************************)
(* The L1 layer of the driver, tropic01/l1.go: l1Write and l1Read, one     *)
(* action per call they make on the Transport (tropic01/transport.go) and  *)
(* one for the inspection of the chip status byte.  Every call of the      *)
(* transport may fail; what the chip answers in a transfer is the choice   *)
(* of the environment.                                                     *)
(***************************************************************************)
EXTENDS Naturals, Sequences

CONSTANTS
  Requests,      \* frames l2Send can hand to l1Write
  GetResponse,   \* the poll frame <<l2GetResponseReqID, l2CmdReqLen, 0, ...>>
  l1MaxRetries   \* status polls of one call

ASSUME L1Assumption ==
  /\ GetResponse \notin Requests
  /\ l1MaxRetries \in Nat \ {0}

VARIABLES
  pc,        \* the next step of the running function, "idle" outside
  frame,     \* the frame this call sends: a request, or the poll frame
  saved,     \* the copy l1Write keeps of its frame
  l2buf,     \* Device.l2buf: a frame to send, or what the chip answered
  tries,     \* iterations of the retry loop started
  ret,       \* what the last call returned
  csn,       \* the chip-select line, active low
  clocked,   \* history: 0, 1 or more (2) transfers since the line went low
  unreleased,\* history: a CSNHigh failed and left the line low
  taken      \* history: frames the chip acted upon in this call

vars == <<pc, frame, saved, l2buf, tries, ret, csn, clocked, unreleased, taken>>

Frames == Requests \union {GetResponse}

\* What a transfer leaves in d.l2buf: the READY and ALARM bits of CHIP_STATUS,
\* and whether STATUS is 0xFF.
ChipBytes == [ready : BOOLEAN, alarm : BOOLEAN, empty : BOOLEAN]

Reading == frame = GetResponse

\* The driver's buffer holds a frame or the chip's answer, and no loop makes
\* more than l1MaxRetries iterations.
TypeOK ==
  /\ pc \in {"idle", "loop", "csnLow", "transfer", "csnHigh", "inspect", "delay"}
  /\ frame \in Frames
  /\ saved \in Frames
  /\ l2buf \in Frames \union ChipBytes
  /\ tries \in 0..l1MaxRetries
  /\ ret \in {"none", "nil", "ErrL1SPI", "ErrL1Timeout", "transport"}
  /\ csn \in {"low", "high"}
  /\ clocked \in 0..2
  /\ unreleased \in BOOLEAN
  /\ taken \in Seq(Frames)

Init ==
  /\ pc = "idle"
  /\ frame = GetResponse
  /\ saved = GetResponse
  /\ l2buf = GetResponse
  /\ tries = 0
  /\ ret = "none"
  /\ csn = "high"
  /\ clocked = 0
  /\ unreleased = FALSE
  /\ taken = <<>>

-----------------------------------------------------------------------------

Return(e) ==
  /\ pc' = "idle"
  /\ ret' = e

\* l1Write(d, length): the caller has the frame in d.l2buf and l1Write saves
\* a copy, since a transfer overwrites d.l2buf[0] with the chip status.
WriteCall(r) ==
  /\ pc = "idle"
  /\ pc' = "loop"
  /\ frame' = r
  /\ saved' = r
  /\ l2buf' = r
  /\ tries' = 0
  /\ taken' = <<>>
  /\ UNCHANGED <<ret, csn, clocked, unreleased>>

\* l1Read(d).
ReadCall ==
  /\ pc = "idle"
  /\ pc' = "loop"
  /\ frame' = GetResponse
  /\ tries' = 0
  /\ taken' = <<>>
  /\ UNCHANGED <<saved, l2buf, ret, csn, clocked, unreleased>>

\* A loop that polls once more than l1MaxRetries.
RefillOnceMore ==
  /\ pc = "loop"
  /\ tries <= l1MaxRetries
  /\ tries' = tries + 1
  /\ l2buf' = IF Reading THEN GetResponse ELSE saved
  /\ pc' = "csnLow"
  /\ UNCHANGED <<frame, saved, ret, csn, clocked, unreleased, taken>>

\* A loop that does not count its iterations.
RefillUncounted ==
  /\ pc = "loop"
  /\ tries < l1MaxRetries
  /\ l2buf' = IF Reading THEN GetResponse ELSE saved
  /\ pc' = "csnLow"
  /\ UNCHANGED <<frame, saved, tries, ret, csn, clocked, unreleased, taken>>

\* The head of both loops: fill d.l2buf again, l1Write from its copy and
\* l1Read with the poll frame.
Refill ==
  /\ pc = "loop"
  /\ tries < l1MaxRetries
  /\ tries' = tries + 1
  /\ l2buf' = IF Reading THEN GetResponse ELSE saved
  /\ pc' = "csnLow"
  /\ UNCHANGED <<frame, saved, ret, csn, clocked, unreleased, taken>>

\* The loop is exhausted: l1Read reports it, l1Write returns nil.
Exhausted ==
  /\ pc = "loop"
  /\ tries = l1MaxRetries
  /\ Return(IF Reading THEN "ErrL1Timeout" ELSE "nil")
  /\ UNCHANGED <<frame, saved, l2buf, tries, csn, clocked, unreleased, taken>>

CSNLow ==
  /\ pc = "csnLow"
  /\ csn' = "low"
  /\ clocked' = IF csn = "high" THEN 0 ELSE clocked
  /\ pc' = "transfer"
  /\ UNCHANGED <<frame, saved, l2buf, tries, ret, unreleased, taken>>

CSNLowFails ==
  /\ pc = "csnLow"
  /\ Return("transport")
  /\ UNCHANGED <<frame, saved, l2buf, tries, csn, clocked, unreleased, taken>>

\* The chip acts on a frame when it reports READY without ALARM; it has a
\* response to give out when STATUS is not 0xFF.
ActsOn(chip) == chip.ready /\ ~chip.alarm /\ (Reading => ~chip.empty)

Clock == clocked' = IF clocked = 0 THEN 1 ELSE 2

Transfer ==
  /\ pc = "transfer"
  /\ \E chip \in ChipBytes :
       /\ l2buf' = chip
       /\ taken' = IF ActsOn(chip) THEN Append(taken, l2buf) ELSE taken
  /\ Clock
  /\ pc' = "csnHigh"
  /\ UNCHANGED <<frame, saved, tries, ret, csn, unreleased>>

\* Releasing the line, which a failing call may leave low.
Release(ok) ==
  \/ csn' = "high" /\ UNCHANGED unreleased
  \/ ~ok /\ UNCHANGED csn /\ unreleased' = TRUE

\* A failing transfer after which the line is not released.
TransferFailsSelected ==
  /\ pc = "transfer"
  /\ Return(IF Reading THEN "ErrL1SPI" ELSE "transport")
  /\ \/ UNCHANGED <<clocked, taken>>
     \/ Clock /\ taken' = Append(taken, l2buf)
  /\ UNCHANGED <<frame, saved, l2buf, tries, csn, unreleased>>

\* The transfer fails, whether or not the chip saw the frame; both functions
\* try to release the line and ignore what that call returns.
TransferFails ==
  /\ pc = "transfer"
  /\ Return(IF Reading THEN "ErrL1SPI" ELSE "transport")
  /\ \/ UNCHANGED <<clocked, taken>>
     \/ Clock /\ taken' = Append(taken, l2buf)
  /\ Release(FALSE)
  /\ UNCHANGED <<frame, saved, l2buf, tries>>

CSNHigh ==
  /\ pc = "csnHigh"
  /\ Release(TRUE)
  /\ pc' = "inspect"
  /\ UNCHANGED <<frame, saved, l2buf, tries, ret, clocked, taken>>

CSNHighFails ==
  /\ pc = "csnHigh"
  /\ Return("transport")
  /\ Release(FALSE)
  /\ UNCHANGED <<frame, saved, l2buf, tries, clocked, taken>>

\* An inspection that polls on after READY.
InspectMissingReady ==
  /\ pc = "inspect"
  /\ \/ l2buf.alarm /\ Return("ErrL1SPI")
     \/ ~l2buf.alarm /\ pc' = "delay" /\ UNCHANGED ret
  /\ UNCHANGED <<frame, saved, l2buf, tries, csn, clocked, unreleased, taken>>

\* An inspection that takes the absence of ALARM for READY.
InspectAlarmOnly ==
  /\ pc = "inspect"
  /\ Return(IF l2buf.alarm THEN "ErrL1SPI" ELSE "nil")
  /\ UNCHANGED <<frame, saved, l2buf, tries, csn, clocked, unreleased, taken>>

\* An inspection that does not look at STATUS.
InspectReadyOnly ==
  /\ pc = "inspect"
  /\ \/ l2buf.alarm /\ Return("ErrL1SPI")
     \/ ~l2buf.alarm /\ l2buf.ready /\ Return("nil")
     \/ ~l2buf.alarm /\ ~l2buf.ready /\ pc' = "delay" /\ UNCHANGED ret
  /\ UNCHANGED <<frame, saved, l2buf, tries, csn, clocked, unreleased, taken>>

\* The chip status byte, d.l2buf[0], decides: ALARM is fatal, READY (and for
\* a read a STATUS other than 0xFF) ends the call, anything else waits.
Inspect ==
  /\ pc = "inspect"
  /\ \/ l2buf.alarm /\ Return("ErrL1SPI")
     \/ ActsOn(l2buf) /\ Return("nil")
     \/ ~l2buf.alarm /\ ~ActsOn(l2buf) /\ pc' = "delay" /\ UNCHANGED ret
  /\ UNCHANGED <<frame, saved, l2buf, tries, csn, clocked, unreleased, taken>>

Delay ==
  /\ pc = "delay"
  /\ pc' = "loop"
  /\ UNCHANGED <<frame, saved, l2buf, tries, ret, csn, clocked, unreleased, taken>>

DelayFails ==
  /\ pc = "delay"
  /\ Return("transport")
  /\ UNCHANGED <<frame, saved, l2buf, tries, csn, clocked, unreleased, taken>>

\* The steps of a running call.
Step ==
  \/ Refill
  \/ Exhausted
  \/ CSNLow
  \/ CSNLowFails
  \/ Transfer
  \/ TransferFails
  \/ CSNHigh
  \/ CSNHighFails
  \/ Inspect
  \/ Delay
  \/ DelayFails

Next ==
  \/ \E r \in Requests : WriteCall(r)
  \/ ReadCall
  \/ Step

Spec == Init /\ [][Next]_vars

\* The functions run to their return: nothing in them blocks, a transport
\* call returns or fails.
FairSpec == Spec /\ WF_vars(Step)

-----------------------------------------------------------------------------

\* Whatever the retries, the chip only ever acts on the frame of the caller:
\* a status byte left over from the previous transfer is never sent as part
\* of a request (the restore at the head of l1Write's loop), and a frame the
\* chip acted upon is not sent to it a second time.
ActsOnCallersFrameOnce == taken \in {<<>>, <<frame>>}

\* Each transfer is clocked in a selection of its own, and the chip is not
\* left selected by any return path, unless a CSNHigh itself failed.
SelectDiscipline ==
  ~unreleased => /\ pc = "transfer" => csn = "low" /\ clocked = 0
                 /\ pc = "idle" => csn = "high"
                 /\ clocked < 2

\* l1Write returns nil without the chip having taken the frame only after
\* all its l1MaxRetries polls.
SilentWriteOnlyWhenExhausted ==
  pc = "idle" /\ ret = "nil" /\ taken = <<>> => ~Reading /\ tries = l1MaxRetries

\* Every call of l1Write and l1Read returns, even from a chip that is never
\* ready.
CallReturns == pc # "idle" ~> pc = "idle"

\* What the L2 layer relies upon, see L1Exchange.
Exchange == INSTANCE L1Exchange WITH
  busy <- pc # "idle",
  given <- taken,
  ok <- pc = "idle" /\ ret = "nil"

ImplementsExchange == Exchange!Spec
=============================================================================
