------------------------------ MODULE UsbDongle ------------------------------
(***************************************************************************)
(* The serial transport, tropic01/hal/usbdongle/usbdongle.go, under the    *)
(* order of calls that l1Write and l1Read make: a Transfer, then CSNHigh   *)
(* whether the Transfer succeeded or not.  Each call writes one command    *)
(* and takes the next line that it can read for the reply: a line of hex   *)
(* digits for a Transfer, OK for CSNHigh.  Nothing in a line says which    *)
(* command it answers.  The dongle is external: it replies to commands in  *)
(* order, at any time, and a line may arrive in up to LinePieces pieces.    *)
(***************************************************************************)
EXTENDS Sequences, UsbBounds

VARIABLES
  port,      \* Transport.port: "closed" (nil), "open", or "hungUp"
  call,      \* the call that waits for its line, or "idle"
  due,       \* the next call that L1 makes
  empty,     \* reads without a byte since bufio's last progress
  lines,     \* lines received and not read, in bufio and in the port
  pieces,    \* pieces of the next line received so far, without its end
  replies,   \* what the dongle has yet to send
  exchanges, \* history: calls of Transfer
  ret,       \* what the last call returned, and what it left in buf
  failed,    \* history: a call failed or did not end since the dongle started
  skipped,   \* history: since then, a command was left out of the order of L1
  slip       \* history: lines outstanding when the last command was written

vars == <<port, call, due, empty, lines, pieces, replies, exchanges, ret, failed, skipped, slip>>

\* A line: the reply to the command of an exchange, whole or without its
\* first pieces.
Line == [kind : {"hex", "OK"}, of : 1..MaxExchanges, whole : BOOLEAN]

\* buf holds the bytes of exchange "from", in full or over the first bytes
\* only; 0 stands for the bytes that the caller wanted to send.
Left == [from : 0..MaxExchanges, full : BOOLEAN]
Own == [from |-> 0, full |-> TRUE]

\* The calls return with what the interface allows, the dongle has at most two
\* replies for each exchange to come, and reads without a byte are bounded.
TypeOK ==
  /\ port \in {"closed", "open", "hungUp"}
  /\ call \in {"idle", "Transfer", "CSNHigh"}
  /\ due \in {"Transfer", "CSNHigh"}
  /\ empty \in 0..(EmptyReads - 1)
  /\ lines \in Seq(Line)
  /\ replies \in Seq(Line)
  /\ pieces \in 0..(LinePieces - 1) /\ (pieces > 0 => replies # <<>>)
  /\ exchanges \in 0..MaxExchanges
  /\ ret \in [call : {"none", "Transfer", "CSNHigh"}, ok : BOOLEAN, buf : Left]
  /\ failed \in BOOLEAN
  /\ skipped \in BOOLEAN
  /\ slip \in 0..(2 * MaxExchanges)
  /\ call # "idle" => port # "closed"

Init ==
  /\ port = "closed"
  /\ call = "idle"
  /\ due = "Transfer"
  /\ empty = 0
  /\ lines = <<>>
  /\ pieces = 0
  /\ replies = <<>>
  /\ exchanges = 0
  /\ ret = [call |-> "none", ok |-> FALSE, buf |-> Own]
  /\ failed = FALSE
  /\ skipped = FALSE
  /\ slip = 0

-----------------------------------------------------------------------------
\* The calls of L1.

Other(c) == IF c = "Transfer" THEN "CSNHigh" ELSE "Transfer"

Return(c, ok, buf) ==
  /\ call' = "idle"
  /\ due' = Other(c)
  /\ empty' = 0
  /\ ret' = [call |-> c, ok |-> ok, buf |-> buf]
  /\ failed' = (failed \/ ~ok)

\* An exchange is counted when its Transfer is called.
Counted(c) ==
  /\ c = "Transfer" => exchanges < MaxExchanges
  /\ exchanges' = IF c = "Transfer" THEN exchanges + 1 ELSE exchanges

\* The reply that the dongle owes for the command of the call c.
Owed(c) == [kind |-> IF c = "Transfer" THEN "hex" ELSE "OK", of |-> exchanges', whole |-> TRUE]

\* The call fails before anything is written: port is nil.
NotOpen ==
  /\ call = "idle"
  /\ port = "closed"
  /\ Counted(due)
  /\ Return(due, FALSE, Own)
  /\ UNCHANGED <<port, lines, pieces, replies, skipped, slip>>

\* A Transfer or CSNHigh writes its command.
Write ==
  /\ call = "idle"
  /\ port = "open"
  /\ Counted(due)
  /\ call' = due
  /\ slip' = Len(lines) + Len(replies)
  /\ replies' = Append(replies, Owed(due))
  /\ UNCHANGED <<port, due, empty, lines, pieces, ret, failed, skipped>>

\* A write that fails may have reached the dongle.
WriteFails ==
  /\ call = "idle"
  /\ port # "closed"
  /\ Counted(due)
  /\ slip' = Len(lines) + Len(replies)
  /\ \/ UNCHANGED replies /\ skipped' = TRUE
     \/ port = "open" /\ replies' = Append(replies, Owed(due)) /\ UNCHANGED skipped
  /\ Return(due, FALSE, Own)
  /\ UNCHANGED <<port, lines, pieces>>

\* A decoder that takes any line for an answer.
DecodedLeniently(l) ==
  IF l.whole THEN {[ok |-> TRUE, buf |-> [from |-> l.of, full |-> TRUE]]}
  ELSE {[ok |-> FALSE, buf |-> Own]}

\* What Transfer makes of a line: OK is no hex, the rest of a line may have
\* an odd number of digits, or fewer bytes than buf, or none at all.
Decoded(l) ==
  IF l.whole
  THEN IF l.kind = "hex" THEN {[ok |-> TRUE, buf |-> [from |-> l.of, full |-> TRUE]]}
       ELSE {[ok |-> FALSE, buf |-> Own]}
  ELSE {[ok |-> FALSE, buf |-> Own], [ok |-> TRUE, buf |-> Own]}
       \union (IF l.kind = "hex" THEN {[ok |-> TRUE, buf |-> [from |-> l.of, full |-> FALSE]]}
               ELSE {})

\* sendExpectOK compares the whole line, less the blanks around it.
ExpectOK(l) == [ok |-> l.kind = "OK" /\ l.whole, buf |-> Own]

\* A line is there.
ReadLine ==
  /\ call # "idle"
  /\ lines # <<>>
  /\ lines' = Tail(lines)
  /\ \E r \in (IF call = "Transfer" THEN Decoded(Head(lines)) ELSE {ExpectOK(Head(lines))}) :
       Return(call, r.ok, r.buf)
  /\ UNCHANGED <<port, pieces, replies, exchanges, skipped, slip>>

\* ReadString gives up and drops the pieces of a line that it has got.
Dropped ==
  /\ pieces' = 0
  /\ replies' = IF pieces > 0 THEN [replies EXCEPT ![1].whole = FALSE] ELSE replies

\* A reader that does not give up, and one that keeps it to itself.
EmptyReadAgain ==
  /\ call # "idle"
  /\ lines = <<>>
  /\ port = "open"
  /\ UNCHANGED vars

EmptyReadUnreported ==
  /\ call # "idle"
  /\ lines = <<>>
  /\ port = "open"
  /\ Return(call, TRUE, Own)
  /\ Dropped
  /\ UNCHANGED <<port, lines, exchanges, skipped, slip>>

\* The read time limit of the port passes without a byte.
EmptyRead ==
  /\ call # "idle"
  /\ lines = <<>>
  /\ port = "open"
  /\ \/ /\ empty + 1 < EmptyReads
        /\ empty' = empty + 1
        /\ UNCHANGED <<call, due, pieces, replies, ret, failed>>
     \/ /\ empty + 1 = EmptyReads
        /\ Return(call, FALSE, Own)
        /\ Dropped
  /\ UNCHANGED <<port, lines, exchanges, skipped, slip>>

\* The device is gone.
ReadFails ==
  /\ call # "idle"
  /\ lines = <<>>
  /\ port = "hungUp"
  /\ Return(call, FALSE, Own)
  /\ UNCHANGED <<port, lines, pieces, replies, exchanges, skipped, slip>>

-----------------------------------------------------------------------------

\* Init of the transport; a fresh connection to a dongle that owes nothing is
\* as good as the first.
Open ==
  /\ port = "closed"
  /\ due = "Transfer"
  /\ port' = "open"
  /\ ret' = [call |-> "none", ok |-> FALSE, buf |-> Own]
  /\ failed' = (failed /\ replies # <<>>)
  /\ skipped' = (skipped /\ replies # <<>>)
  /\ UNCHANGED <<call, due, empty, lines, pieces, replies, exchanges, slip>>

\* The port and the reader with all it has buffered are given up.
Closed ==
  /\ port' = "closed"
  /\ lines' = <<>>
  /\ Dropped

Deinit ==
  /\ call = "idle"
  /\ due = "Transfer"
  /\ port # "closed"
  /\ Closed
  /\ UNCHANGED <<call, due, empty, exchanges, ret, failed, skipped, slip>>

\* The process ends in the middle of a call or before CSNHigh was called, and
\* that command is never written; the next process starts with a Transfer.
Killed ==
  /\ port # "closed"
  /\ call # "idle" \/ due = "CSNHigh"
  /\ Closed
  /\ Return("CSNHigh", FALSE, Own)
  /\ skipped' = (skipped \/ call # "CSNHigh")
  /\ UNCHANGED <<exchanges, slip>>

-----------------------------------------------------------------------------
\* The dongle, external to the repository.

\* A piece of a line arrives, and not its end: a read with progress.
SendsPiece ==
  /\ port = "open"
  /\ replies # <<>>
  /\ pieces + 1 < LinePieces
  /\ pieces' = pieces + 1
  /\ empty' = 0
  /\ UNCHANGED <<port, call, due, lines, replies, exchanges, ret, failed, skipped, slip>>

SendsLine ==
  /\ port = "open"
  /\ replies # <<>>
  /\ lines' = Append(lines, Head(replies))
  /\ replies' = Tail(replies)
  /\ pieces' = 0
  /\ UNCHANGED <<port, call, due, empty, exchanges, ret, failed, skipped, slip>>

\* The dongle is unplugged or restarts: what it owes is lost, the port hangs up,
\* and only what bufio has read remains.
Unplugged ==
  /\ replies' = <<>>
  /\ pieces' = 0
  /\ \E n \in 0..Len(lines) : lines' = SubSeq(lines, 1, n)
  /\ port' = IF port = "closed" THEN "closed" ELSE "hungUp"
  /\ UNCHANGED <<call, due, empty, exchanges, ret, failed, skipped, slip>>

HostStep == ReadLine \/ EmptyRead \/ ReadFails

Next ==
  \/ NotOpen
  \/ Write
  \/ WriteFails
  \/ HostStep
  \/ Open
  \/ Deinit
  \/ Killed
  \/ SendsPiece
  \/ SendsLine
  \/ Unplugged

Spec == Init /\ [][Next]_vars

\* A read returns, with bytes or when its time limit has passed.
FairSpec == Spec /\ WF_vars(HostStep)

\* The dongle carries out each command that is written and each line comes whole,
\* at worst too late for its call: no failure but a read that times out.
SlowSpec == Init /\ [][Open \/ Write \/ HostStep \/ SendsLine]_vars

-----------------------------------------------------------------------------

\* A Transfer that returns nil returns the bytes of its own exchange until the
\* first call that failed or was cut short.
Interface == INSTANCE Transport WITH
  running <- call = "Transfer",
  answer <- IF ret.call = "Transfer" /\ ret.ok /\ call = "idle" THEN ret.buf.from ELSE 0

ImplementsTransport == Interface!Spec

\* The replies to Transfer and CSNHigh differ, so that a connection that is one
\* line late fails at every call and returns no data at all: as long as L1's
\* order of commands was kept, the bytes of an older exchange can only come when
\* an even number of lines is late.  (A line that lost its first pieces may pass
\* as an answer of no bytes.)
OddSlipIsDetected ==
  ~skipped /\ ret.ok /\ call = "idle" /\ (ret.call = "Transfer" => ret.buf.full /\ ret.buf.from # 0) =>
    slip % 2 = 0

\* A call returns, however long the dongle is silent, within a line or between
\* two.  (A line has finitely many pieces.)
CallReturns == call # "idle" ~> call = "idle"

\* "On return, buf contains the received bytes" (tropic01/transport.go:20).
ReturnsReceivedBytes ==
  ret.call = "Transfer" /\ ret.ok /\ call = "idle" =>
    ret.buf = [from |-> exchanges, full |-> TRUE]
=============================================================================
