--------------------------- MODULE UsbDongleProofs ---------------------------
(***************************************************************************)
(* Proofs about the serial transport, for every number of exchanges and    *)
(* every limit of bufio.  Each command adds one line to those outstanding, *)
(* received or yet to come, and each return takes at most one from their   *)
(* front: so lines can be late but never early, and as long as L1's order  *)
(* of commands is kept, how late they are shows in what kind comes first.  *)
(* A call makes a bounded number of reads.                                 *)
(***************************************************************************)
EXTENDS UsbDongle, SequenceTheorems, TLAPS

-----------------------------------------------------------------------------
\* Types, and the number of lines that are outstanding.

Outstanding == Len(lines) + Len(replies)

\* The dongle owes at most two lines for each exchange, and one less while the
\* last exchange has yet to write its CSNHigh.
CountInv ==
  /\ call # "idle" => call = due
  /\ due = "CSNHigh" => exchanges > 0
  /\ Outstanding <= 2 * exchanges
  /\ due = "CSNHigh" /\ call = "idle" => Outstanding < 2 * exchanges
  /\ call = "Transfer" => Outstanding < 2 * exchanges

\* Every line answers an exchange that was begun.
OwnLines ==
  /\ \A i \in DOMAIN lines : lines[i].of <= exchanges
  /\ \A i \in DOMAIN replies : replies[i].of <= exchanges

TypeInv == TypeOK /\ CountInv /\ OwnLines

\* The results of a call, apart from their form.
Results == [call : {"none", "Transfer", "CSNHigh"}, ok : BOOLEAN, buf : Left]

LEMMA OwnType == Own \in Left
<1>1. 0 \in 0..MaxExchanges
  BY UsbDongleAssumption
<1> QED
  BY <1>1 DEF Own, Left

LEMMA TypeInit == Init => TypeInv
<1> SUFFICES ASSUME Init PROVE TypeInv
  OBVIOUS
<1>1. /\ empty \in 0..(EmptyReads - 1) /\ exchanges \in 0..MaxExchanges
      /\ slip \in 0..(2 * MaxExchanges)
      /\ pieces \in 0..(LinePieces - 1) /\ ~(pieces > 0)
  BY UsbDongleAssumption DEF Init
<1>2. lines \in Seq(Line) /\ replies \in Seq(Line)
  BY DEF Init
<1>3. ret \in Results
  BY OwnType DEF Init, Results
<1>4. TypeOK
  BY <1>1, <1>2, <1>3 DEF Init, TypeOK, Results
<1>5. CountInv /\ OwnLines
  BY DEF Init, CountInv, OwnLines, Outstanding
<1> QED
  BY <1>4, <1>5 DEF TypeInv

\* What a line that is read leaves behind.
LEMMA DecodedType ==
  ASSUME NEW l \in Line, NEW r \in Decoded(l)
  PROVE  r.ok \in BOOLEAN /\ r.buf \in Left /\ r.buf.from \in {0, l.of}
<1> DEFINE full == [from |-> l.of, full |-> TRUE]
           rest == [from |-> l.of, full |-> FALSE]
<1>1. l.of \in 0..MaxExchanges
  BY UsbDongleAssumption DEF Line
<1>2. full \in Left /\ rest \in Left /\ full.from = l.of /\ rest.from = l.of
  BY <1>1 DEF Left
<1>3. PICK ok \in BOOLEAN, buf \in {full, rest, Own} : r = [ok |-> ok, buf |-> buf]
  BY DEF Decoded
<1>4. Own.from = 0
  BY DEF Own
<1> HIDE DEF full, rest
<1>5. r.ok \in BOOLEAN
  <2>1. CASE ok = TRUE
    BY <1>3, <2>1
  <2>2. CASE ok = FALSE
    BY <1>3, <2>2
  <2> QED
    BY <2>1, <2>2
<1>6. r.buf \in {full, rest, Own}
  BY <1>3
<1> QED
  BY <1>2, <1>4, <1>5, <1>6, OwnType

\* The reply that is owed for a command is a line of the exchange.
LEMMA OwedType ==
  ASSUME TypeInv, Counted(due)
  PROVE  /\ exchanges' \in 0..MaxExchanges
         /\ exchanges' >= exchanges
         /\ Owed(due) \in Line
         /\ Owed(due).of = exchanges'
<1>1. exchanges \in 0..MaxExchanges /\ MaxExchanges \in Nat
  BY UsbDongleAssumption DEF TypeInv, TypeOK
<1>2. exchanges' \in 0..MaxExchanges /\ exchanges' >= exchanges /\ exchanges' > 0
  BY <1>1 DEF TypeInv, TypeOK, CountInv, Counted
<1>3. exchanges' \in 1..MaxExchanges
  BY <1>1, <1>2
<1> QED
  BY <1>2, <1>3 DEF Owed, Line

\* A line that has lost its first pieces is a line of the same exchange.
LEMMA DroppedType ==
  ASSUME TypeInv, Dropped
  PROVE  /\ replies' \in Seq(Line)
         /\ Len(replies') = Len(replies)
         /\ pieces' = 0
         /\ \A i \in DOMAIN replies' :
              i \in DOMAIN replies /\ replies'[i].of = replies[i].of /\ replies'[i].kind = replies[i].kind
<1> USE DEF TypeInv, TypeOK
<1>1. CASE pieces > 0
  <2> DEFINE l == [replies[1] EXCEPT !.whole = FALSE]
  <2>1. replies # <<>> /\ 1 \in 1..Len(replies)
    BY <1>1
  <2>2. l \in Line /\ l.of = replies[1].of /\ l.kind = replies[1].kind
    <3>1. replies[1] \in Line
      BY <2>1
    <3> QED
      BY <3>1 DEF Line
  <2>3. replies' = [replies EXCEPT ![1] = l]
    BY <1>1 DEF Dropped
  <2> HIDE DEF l
  <2>4. replies' \in Seq(Line) /\ Len(replies') = Len(replies)
    BY <2>1, <2>2, <2>3
  <2>5. \A i \in DOMAIN replies' : replies'[i] = IF i = 1 THEN l ELSE replies[i]
    BY <2>1, <2>3
  <2> QED
    BY <2>2, <2>4, <2>5 DEF Dropped
<1>2. CASE ~(pieces > 0)
  BY <1>2 DEF Dropped
<1> QED
  BY <1>1, <1>2
\* A return leaves its call and what it said.
LEMMA ReturnType ==
  ASSUME TypeInv,
         NEW c \in {"Transfer", "CSNHigh"}, NEW ok \in BOOLEAN, NEW buf \in Left,
         Return(c, ok, buf)
  PROVE  /\ call' = "idle" /\ due' = Other(c) /\ due' \in {"Transfer", "CSNHigh"}
         /\ empty' \in 0..(EmptyReads - 1)
         /\ ret' \in Results
         /\ failed' \in BOOLEAN
<1>1. empty' \in 0..(EmptyReads - 1)
  BY UsbDongleAssumption DEF Return
<1>2. ret' \in Results
  BY DEF Return, Results
<1>3. failed' \in BOOLEAN
  BY DEF Return, TypeInv, TypeOK
<1> QED
  BY <1>1, <1>2, <1>3 DEF Return, Other

\* An exchange that begins makes no line a younger one.
LEMMA OwnLinesKept ==
  ASSUME TypeInv, exchanges' \in Nat, exchanges' >= exchanges, UNCHANGED <<lines, replies>>
  PROVE  OwnLines'
<1>1. exchanges \in Nat /\ lines \in Seq(Line) /\ replies \in Seq(Line)
  BY DEF TypeInv, TypeOK
<1>2. \A l \in Line : l.of \in Nat
  BY DEF Line
<1>3. (\A i \in DOMAIN lines : lines[i] \in Line) /\ (\A i \in DOMAIN replies : replies[i] \in Line)
  BY <1>1
<1>4. \A l \in Line : l.of <= exchanges => l.of <= exchanges'
  BY <1>1, <1>2
<1> QED
  BY <1>3, <1>4 DEF TypeInv, OwnLines

\* Lines that were outstanding before still answer exchanges that were begun.
LEMMA OwedKeeps ==
  ASSUME TypeInv, Counted(due), replies' = Append(replies, Owed(due)), UNCHANGED lines
  PROVE  /\ replies' \in Seq(Line) /\ replies' # <<>>
         /\ Outstanding' = Outstanding + 1
         /\ OwnLines'
<1>1. /\ exchanges' \in Nat /\ exchanges \in Nat /\ exchanges' >= exchanges
      /\ Owed(due) \in Line /\ Owed(due).of = exchanges'
  BY OwedType, UsbDongleAssumption DEF TypeInv, TypeOK
<1> HIDE DEF Owed
<1> DEFINE l == Owed(due)
<1> HIDE DEF l
<1>2. l \in Line /\ l.of = exchanges' /\ replies' = Append(replies, l)
  BY <1>1 DEF l
<1>3. lines \in Seq(Line) /\ replies \in Seq(Line)
  BY DEF TypeInv, TypeOK
<1>4. replies' \in Seq(Line) /\ replies' # <<>> /\ Len(replies') = Len(replies) + 1
  BY <1>2, <1>3
<1>5. \A i \in DOMAIN lines' : lines'[i].of <= exchanges'
  <2> SUFFICES ASSUME NEW i \in DOMAIN lines PROVE lines[i].of <= exchanges'
    OBVIOUS
  <2>1. lines[i] \in Line /\ lines[i].of <= exchanges
    BY <1>3 DEF TypeInv, OwnLines
  <2>2. lines[i].of \in Nat
    BY <2>1 DEF Line
  <2> QED
    BY <1>1, <2>1, <2>2
<1>6. \A i \in DOMAIN replies' : replies'[i].of <= exchanges'
  <2> SUFFICES ASSUME NEW i \in DOMAIN replies' PROVE replies'[i].of <= exchanges'
    OBVIOUS
  <2>1. CASE i = Len(replies) + 1
    BY <1>1, <1>2, <1>3, <2>1
  <2>2. CASE i # Len(replies) + 1
    <3>1. i \in DOMAIN replies /\ replies'[i] = replies[i]
      BY <1>2, <1>3, <1>4, <2>2
    <3>2. replies[i] \in Line /\ replies[i].of <= exchanges
      BY <1>3, <3>1 DEF TypeInv, OwnLines
    <3>3. replies[i].of \in Nat
      BY <3>2 DEF Line
    <3> QED
      BY <1>1, <3>1, <3>2, <3>3
  <2> QED
    BY <2>1, <2>2
<1> QED
  BY <1>3, <1>4, <1>5, <1>6 DEF Outstanding, OwnLines

\* The port and all that was received are given up.
LEMMA ClosedType ==
  ASSUME TypeInv, Closed, UNCHANGED exchanges
  PROVE  /\ port' = "closed" /\ lines' = <<>> /\ replies' \in Seq(Line) /\ Len(replies') = Len(replies)
         /\ pieces' = 0 /\ OwnLines'
<1>1. Dropped
  BY DEF Closed
<1>2. \A i \in DOMAIN replies' : i \in DOMAIN replies /\ replies'[i].of = replies[i].of
  BY <1>1, DroppedType
<1>3. lines' = <<>> /\ port' = "closed"
  BY DEF Closed
<1>4. OwnLines'
  BY <1>2, <1>3 DEF TypeInv, OwnLines
<1> QED
  BY <1>1, <1>3, <1>4, DroppedType

\* A call returns without a line.
LEMMA NoLineType ==
  ASSUME TypeInv, call # "idle", Return(call, FALSE, Own),
         UNCHANGED <<port, lines, exchanges, skipped, slip>>,
         replies' \in Seq(Line), Len(replies') = Len(replies), pieces' > 0 => replies' # <<>>, pieces' \in 0..(LinePieces - 1),
         \A i \in DOMAIN replies' : i \in DOMAIN replies /\ replies'[i].of = replies[i].of
  PROVE  TypeInv'
<1>1. call = due /\ call \in {"Transfer", "CSNHigh"}
  BY DEF TypeInv, TypeOK, CountInv
<1>2. /\ call' = "idle" /\ due' = Other(due) /\ due' \in {"Transfer", "CSNHigh"}
      /\ empty' \in 0..(EmptyReads - 1) /\ ret' \in Results /\ failed' \in BOOLEAN
  BY <1>1, ReturnType, OwnType
<1>3. TypeOK'
  BY <1>2 DEF TypeInv, TypeOK, Results
<1>4. CountInv'
  BY <1>1, <1>2 DEF TypeInv, TypeOK, CountInv, Outstanding, Other
<1>5. OwnLines'
  BY DEF TypeInv, OwnLines
<1> QED
  BY <1>3, <1>4, <1>5 DEF TypeInv

\* Each step keeps the types; what is left to see of it are the numbers.
LEMMA TypeStep == TypeInv /\ [Next]_vars => TypeInv'
<1> SUFFICES ASSUME TypeInv, [Next]_vars
             PROVE  TypeInv'
  OBVIOUS
<1>t. /\ lines \in Seq(Line) /\ replies \in Seq(Line) /\ Len(lines) \in Nat /\ Len(replies) \in Nat
      /\ exchanges \in Nat /\ MaxExchanges \in Nat /\ exchanges <= MaxExchanges
      /\ due \in {"Transfer", "CSNHigh"} /\ 0 \in 0..(LinePieces - 1) /\ LinePieces \in Nat
  BY UsbDongleAssumption DEF TypeInv, TypeOK
<1>1. CASE NotOpen
  <2>1. Return(due, FALSE, Own) /\ Counted(due) /\ call = "idle"
    BY <1>1 DEF NotOpen
  <2>2. /\ call' = "idle" /\ due' = Other(due) /\ due' \in {"Transfer", "CSNHigh"}
        /\ empty' \in 0..(EmptyReads - 1) /\ ret' \in Results /\ failed' \in BOOLEAN
    BY <1>t, <2>1, ReturnType, OwnType
  <2>3. exchanges' \in 0..MaxExchanges /\ exchanges' >= exchanges
    BY <2>1, OwedType
  <2>4. TypeOK'
    BY <1>1, <2>2, <2>3 DEF NotOpen, TypeInv, TypeOK, Results
  <2>5. CountInv'
    BY <1>t, <1>1, <2>1, <2>2, <2>3 DEF NotOpen, TypeInv, CountInv, Outstanding, Counted, Other
  <2>6. OwnLines'
    BY <1>1, <2>3, OwnLinesKept DEF NotOpen
  <2> QED
    BY <2>4, <2>5, <2>6 DEF TypeInv
<1>2. CASE Write
  <2>1. /\ Counted(due) /\ replies' = Append(replies, Owed(due)) /\ UNCHANGED lines
        /\ call = "idle" /\ call' = due /\ UNCHANGED due
    BY <1>2 DEF Write
  <2>2. replies' \in Seq(Line) /\ replies' # <<>> /\ Outstanding' = Outstanding + 1 /\ OwnLines'
    BY <2>1, OwedKeeps
  <2>3. exchanges' \in 0..MaxExchanges /\ exchanges' >= exchanges
    BY <2>1, OwedType
  <2>4. Outstanding \in Nat /\ Outstanding <= 2 * exchanges
    BY <1>t DEF TypeInv, CountInv, Outstanding
  <2>5. slip' \in 0..(2 * MaxExchanges)
    BY <1>t, <1>2, <2>4 DEF Write, Outstanding
  <2>6. TypeOK'
    BY <1>t, <1>2, <2>1, <2>2, <2>3, <2>5 DEF Write, TypeInv, TypeOK
  <2>7. CountInv'
    BY <1>t, <2>1, <2>2, <2>3, <2>4 DEF TypeInv, CountInv, Counted
  <2> QED
    BY <2>2, <2>6, <2>7 DEF TypeInv
<1>3. CASE WriteFails
  <2>1. Return(due, FALSE, Own) /\ Counted(due) /\ call = "idle" /\ UNCHANGED lines
    BY <1>3 DEF WriteFails
  <2>2. /\ call' = "idle" /\ due' = Other(due) /\ due' \in {"Transfer", "CSNHigh"}
        /\ empty' \in 0..(EmptyReads - 1) /\ ret' \in Results /\ failed' \in BOOLEAN
    BY <1>t, <2>1, ReturnType, OwnType
  <2>3. exchanges' \in 0..MaxExchanges /\ exchanges' >= exchanges
    BY <2>1, OwedType
  <2>4. /\ replies' \in Seq(Line) /\ (replies # <<>> => replies' # <<>>) /\ OwnLines'
        /\ Outstanding' = Outstanding \/ Outstanding' = Outstanding + 1
    <3>1. CASE UNCHANGED replies
      BY <1>t, <2>1, <2>3, <3>1, OwnLinesKept DEF Outstanding
    <3>2. CASE replies' = Append(replies, Owed(due))
      BY <2>1, <3>2, OwedKeeps
    <3> QED
      BY <1>3, <3>1, <3>2 DEF WriteFails
  <2>5. Outstanding \in Nat /\ Outstanding <= 2 * exchanges
    BY <1>t DEF TypeInv, CountInv, Outstanding
  <2>6. slip' \in 0..(2 * MaxExchanges)
    BY <1>t, <1>3, <2>5 DEF WriteFails, Outstanding
  <2>7. skipped' \in BOOLEAN /\ UNCHANGED <<port, pieces>>
    BY <1>3 DEF WriteFails, TypeInv, TypeOK
  <2>8. TypeOK'
    BY <1>t, <2>1, <2>2, <2>3, <2>4, <2>6, <2>7 DEF TypeInv, TypeOK, Results
  <2>9. CountInv'
    BY <1>t, <2>1, <2>2, <2>3, <2>4, <2>5 DEF TypeInv, CountInv, Counted, Other
  <2> QED
    BY <2>4, <2>8, <2>9 DEF TypeInv
<1>4. CASE ReadLine
  <2>1. call # "idle" /\ call = due /\ lines # <<>> /\ lines' = Tail(lines)
    BY <1>4 DEF ReadLine, TypeInv, CountInv
  <2>2. Head(lines) \in Line
    BY <1>t, <2>1
  <2>3. PICK ok \in BOOLEAN, buf \in Left : Return(call, ok, buf)
    <3>1. CASE call = "Transfer"
      BY <1>4, <2>2, <3>1, DecodedType DEF ReadLine
    <3>2. CASE call # "Transfer"
      <4> DEFINE ok == Head(lines).kind = "OK" /\ Head(lines).whole
      <4>1. Return(call, ok, Own)
        BY <1>4, <3>2 DEF ReadLine, ExpectOK
      <4>2. ok \in BOOLEAN
        BY <2>2 DEF Line
      <4> HIDE DEF ok
      <4> QED
        BY <4>1, <4>2, OwnType
    <3> QED
      BY <3>1, <3>2
  <2>4. /\ call' = "idle" /\ due' = Other(due) /\ due' \in {"Transfer", "CSNHigh"}
        /\ empty' \in 0..(EmptyReads - 1) /\ ret' \in Results /\ failed' \in BOOLEAN
    BY <1>t, <2>1, <2>3, ReturnType
  <2>5. lines' \in Seq(Line) /\ Len(lines') = Len(lines) - 1
    BY <1>t, <2>1
  <2>6. \A i \in DOMAIN lines' : i + 1 \in DOMAIN lines /\ lines'[i] = lines[i + 1]
    BY <1>t, <2>1, <2>5
  <2>7. UNCHANGED <<port, pieces, replies, exchanges, skipped, slip>>
    BY <1>4 DEF ReadLine
  <2>8. TypeOK'
    BY <2>4, <2>5, <2>7 DEF TypeInv, TypeOK, Results
  <2>9. CountInv'
    BY <1>t, <2>1, <2>4, <2>5, <2>7 DEF TypeInv, CountInv, Outstanding, Other
  <2>10. OwnLines'
    BY <2>6, <2>7 DEF TypeInv, OwnLines
  <2> QED
    BY <2>8, <2>9, <2>10 DEF TypeInv
<1>5. CASE EmptyRead
  <2>0. call # "idle" /\ call = due /\ UNCHANGED <<port, lines, exchanges, skipped, slip>>
    BY <1>5 DEF EmptyRead, TypeInv, CountInv
  <2>1. CASE empty + 1 < EmptyReads /\ empty' = empty + 1 /\ UNCHANGED <<call, due, pieces, replies, ret, failed>>
    <3>1. empty' \in 0..(EmptyReads - 1)
      BY <2>1, UsbDongleAssumption DEF TypeInv, TypeOK
    <3>2. TypeOK'
      BY <2>0, <2>1, <3>1 DEF TypeInv, TypeOK
    <3>3. CountInv' /\ OwnLines'
      BY <2>0, <2>1 DEF TypeInv, CountInv, OwnLines, Outstanding
    <3> QED
      BY <3>2, <3>3 DEF TypeInv
  <2>2. CASE Return(call, FALSE, Own) /\ Dropped
    BY <1>t, <2>0, <2>2, DroppedType, NoLineType
  <2> QED
    BY <1>5, <2>1, <2>2 DEF EmptyRead
<1>6. CASE ReadFails
  <2>1. /\ call # "idle" /\ Return(call, FALSE, Own)
        /\ UNCHANGED <<port, lines, pieces, replies, exchanges, skipped, slip>>
    BY <1>6 DEF ReadFails
  <2> QED
    BY <1>t, <2>1, NoLineType DEF TypeInv, TypeOK
<1>7. CASE Open
  <2>1. ret' \in Results
    BY <1>7, OwnType DEF Open, Results
  <2>2. TypeOK'
    BY <1>7, <2>1 DEF Open, TypeInv, TypeOK, Results
  <2>3. CountInv' /\ OwnLines'
    BY <1>7 DEF Open, TypeInv, CountInv, OwnLines, Outstanding
  <2> QED
    BY <2>2, <2>3 DEF TypeInv
<1>8. CASE Deinit
  <2>1. /\ UNCHANGED <<call, due, empty, exchanges, ret, failed, skipped, slip>>
        /\ Closed /\ call = "idle" /\ due = "Transfer"
    BY <1>8 DEF Deinit
  <2>2. /\ port' = "closed" /\ lines' = <<>> /\ replies' \in Seq(Line) /\ Len(replies') = Len(replies)
        /\ pieces' = 0 /\ OwnLines' /\ lines' \in Seq(Line)
    BY <2>1, ClosedType
  <2>3. TypeOK'
    BY <1>t, <2>1, <2>2 DEF TypeInv, TypeOK
  <2>4. CountInv'
    BY <1>t, <2>1, <2>2 DEF TypeInv, CountInv, Outstanding
  <2> QED
    BY <2>2, <2>3, <2>4 DEF TypeInv
<1>9. CASE Killed
  <2>1. /\ Return("CSNHigh", FALSE, Own) /\ Closed
        /\ skipped' \in BOOLEAN /\ UNCHANGED <<exchanges, slip>>
    BY <1>9 DEF Killed, TypeInv, TypeOK
  <2>2. /\ port' = "closed" /\ lines' = <<>> /\ replies' \in Seq(Line) /\ Len(replies') = Len(replies)
        /\ pieces' = 0 /\ OwnLines' /\ lines' \in Seq(Line)
    BY <2>1, ClosedType
  <2>3. /\ call' = "idle" /\ due' = "Transfer"
        /\ empty' \in 0..(EmptyReads - 1) /\ ret' \in Results /\ failed' \in BOOLEAN
    BY <2>1, ReturnType, OwnType DEF Other
  <2>4. TypeOK'
    BY <1>t, <2>1, <2>2, <2>3 DEF TypeInv, TypeOK, Results
  <2>5. CountInv'
    BY <1>t, <2>1, <2>2, <2>3 DEF TypeInv, CountInv, Outstanding
  <2> QED
    BY <2>2, <2>4, <2>5 DEF TypeInv
<1>10. CASE SendsPiece
  <2>1. empty' \in 0..(EmptyReads - 1)
    BY <1>10, UsbDongleAssumption DEF SendsPiece
  <2>2. TypeOK'
    BY <1>t, <1>10, <2>1 DEF SendsPiece, TypeInv, TypeOK
  <2>3. CountInv' /\ OwnLines'
    BY <1>10 DEF SendsPiece, TypeInv, CountInv, OwnLines, Outstanding
  <2> QED
    BY <2>2, <2>3 DEF TypeInv
<1>11. CASE SendsLine
  <2>1. /\ replies # <<>> /\ lines' = Append(lines, Head(replies)) /\ replies' = Tail(replies) /\ pieces' = 0
        /\ UNCHANGED <<port, call, due, empty, exchanges, ret, failed, skipped, slip>>
    BY <1>11 DEF SendsLine
  <2>2. /\ lines' \in Seq(Line) /\ Len(lines') = Len(lines) + 1
        /\ replies' \in Seq(Line) /\ Len(replies') = Len(replies) - 1
    BY <1>t, <2>1
  <2>3. TypeOK'
    BY <1>t, <2>1, <2>2 DEF TypeInv, TypeOK
  <2>4. CountInv'
    BY <1>t, <2>1, <2>2 DEF TypeInv, CountInv, Outstanding
  <2>5. \A i \in DOMAIN lines' : lines'[i].of <= exchanges
    <3>1. \A i \in DOMAIN lines' :
            IF i \in DOMAIN lines THEN lines'[i] = lines[i]
            ELSE 1 \in DOMAIN replies /\ lines'[i] = replies[1]
      <4> SUFFICES ASSUME NEW i \in DOMAIN lines'
                   PROVE  IF i \in DOMAIN lines THEN lines'[i] = lines[i]
                          ELSE 1 \in DOMAIN replies /\ lines'[i] = replies[1]
        OBVIOUS
      <4>1. 1 \in DOMAIN replies /\ Head(replies) = replies[1]
        BY <1>t, <2>1
      <4> QED
        BY <1>t, <2>1, <2>2, <4>1
    <3> QED
      BY <3>1 DEF TypeInv, OwnLines
  <2>6. \A i \in DOMAIN replies' : replies'[i].of <= exchanges
    <3>1. \A i \in DOMAIN replies' : i + 1 \in DOMAIN replies /\ replies'[i] = replies[i + 1]
      BY <1>t, <2>1, <2>2
    <3> QED
      BY <3>1 DEF TypeInv, OwnLines
  <2> QED
    BY <2>1, <2>3, <2>4, <2>5, <2>6 DEF TypeInv, OwnLines
<1>12. CASE Unplugged
  <2>1. /\ replies' = <<>> /\ pieces' = 0 /\ port' = IF port = "closed" THEN "closed" ELSE "hungUp"
        /\ UNCHANGED <<call, due, empty, exchanges, ret, failed, skipped, slip>>
    BY <1>12 DEF Unplugged
  <2>2. PICK n \in 0..Len(lines) : lines' = SubSeq(lines, 1, n)
    BY <1>12 DEF Unplugged
  <2>3. /\ lines' \in Seq(Line) /\ Len(lines') = n /\ n \in Nat /\ n <= Len(lines)
        /\ \A i \in DOMAIN lines' : i \in DOMAIN lines /\ lines'[i] = lines[i]
    BY <1>t, <2>2
  <2>a. replies' \in Seq(Line) /\ Len(replies') = 0
    BY <2>1
  <2>b. port' \in {"closed", "open", "hungUp"} /\ (call' # "idle" => port' # "closed")
    BY <2>1 DEF TypeInv, TypeOK
  <2>4. TypeOK'
    BY <1>t, <2>1, <2>3, <2>a, <2>b DEF TypeInv, TypeOK
  <2>5. CountInv'
    BY <1>t, <2>1, <2>3, <2>a DEF TypeInv, CountInv, Outstanding
  <2>6. OwnLines'
    BY <2>1, <2>3 DEF TypeInv, OwnLines
  <2> QED
    BY <2>4, <2>5, <2>6 DEF TypeInv
<1>13. CASE UNCHANGED vars
  <2>1. TypeOK'
    BY <1>13 DEF vars, TypeInv, TypeOK
  <2>2. CountInv' /\ OwnLines'
    BY <1>13 DEF vars, TypeInv, CountInv, OwnLines, Outstanding
  <2> QED
    BY <2>1, <2>2 DEF TypeInv
<1> QED
  BY <1>1, <1>2, <1>3, <1>4, <1>5, <1>6, <1>7, <1>8, <1>9, <1>10, <1>11, <1>12, <1>13 DEF Next, HostStep

LEMMA TypesAlways == Spec => []TypeInv
BY TypeInit, TypeStep, PTL DEF Spec

\* The connection, the dongle and the calls keep their types; the dongle never
\* has more than two lines to come for each exchange.
THEOREM Typing == Spec => []TypeOK
<1>1. TypeInv => TypeOK
  BY DEF TypeInv
<1> QED
  BY <1>1, TypesAlways, PTL

-----------------------------------------------------------------------------
\* What is outstanding before the first call that fails: nothing between two
\* calls, and the own reply during a call.

\* A port that is closed has nothing buffered, a dongle that is gone owes nothing.
GoneInv ==
  /\ port = "closed" => lines = <<>>
  /\ port = "hungUp" => replies = <<>>

OwnReply(l) ==
  /\ l.kind = IF call = "Transfer" THEN "hex" ELSE "OK"
  /\ l.of = exchanges
  /\ l.whole = TRUE

NotLateInv ==
  ~failed =>
    /\ Outstanding <= IF call = "idle" THEN 0 ELSE 1
    /\ lines # <<>> => OwnReply(lines[1])
    /\ replies # <<>> => OwnReply(replies[1])

LateInv == GoneInv /\ NotLateInv

LEMMA LateInit == Init => LateInv
BY DEF Init, LateInv, GoneInv, NotLateInv, Outstanding

\* Lines go with the port, and replies with the dongle.
LEMMA GoneStep == TypeInv /\ GoneInv /\ [Next]_vars => GoneInv'
<1> SUFFICES ASSUME TypeInv, GoneInv, [Next]_vars
             PROVE  GoneInv'
  OBVIOUS
<1> USE DEF GoneInv
<1>1. CASE NotOpen
  BY <1>1 DEF NotOpen
<1>2. CASE Write
  BY <1>2 DEF Write
<1>3. CASE WriteFails
  BY <1>3 DEF WriteFails
<1>4. CASE ReadLine
  BY <1>4 DEF ReadLine
<1>5. CASE EmptyRead
  BY <1>5 DEF EmptyRead
<1>6. CASE ReadFails
  BY <1>6 DEF ReadFails
<1>7. CASE Open
  BY <1>7 DEF Open
<1>8. CASE Deinit
  BY <1>8 DEF Deinit, Closed
<1>9. CASE Killed
  BY <1>9 DEF Killed, Closed
<1>10. CASE SendsPiece
  BY <1>10 DEF SendsPiece
<1>11. CASE SendsLine
  BY <1>11 DEF SendsLine
<1>12. CASE Unplugged
  <2>1. lines' = <<>> \/ port # "closed"
    <3> SUFFICES ASSUME port = "closed" PROVE lines' = <<>>
      OBVIOUS
    <3>1. lines = <<>> /\ Len(lines) = 0
      OBVIOUS
    <3>2. lines' = SubSeq(<<>>, 1, 0)
      BY <1>12, <3>1 DEF Unplugged
    <3> QED
      BY <3>2
  <2> QED
    BY <1>12, <2>1 DEF Unplugged
<1>13. CASE UNCHANGED vars
  BY <1>13 DEF vars
<1> QED
  BY <1>1, <1>2, <1>3, <1>4, <1>5, <1>6, <1>7, <1>8, <1>9, <1>10, <1>11, <1>12, <1>13 DEF Next, HostStep

\* A failure ends the promise; until then each return takes the only line there is.
LEMMA NotLateStep == TypeInv /\ LateInv /\ [Next]_vars => NotLateInv'
<1> SUFFICES ASSUME TypeInv, LateInv, [Next]_vars, ~failed'
             PROVE  NotLateInv'
  BY DEF NotLateInv
<1>t. /\ lines \in Seq(Line) /\ replies \in Seq(Line) /\ Len(lines) \in Nat /\ Len(replies) \in Nat
      /\ exchanges \in Nat /\ failed \in BOOLEAN /\ due \in {"Transfer", "CSNHigh"}
      /\ port = "closed" => call = "idle"
  BY DEF TypeInv, TypeOK
<1>n. ~failed => /\ call = "idle" => lines = <<>> /\ replies = <<>>
                 /\ Len(lines) + Len(replies) <= 1
                 /\ lines # <<>> => OwnReply(lines[1])
                 /\ replies # <<>> => OwnReply(replies[1])
  BY <1>t DEF LateInv, NotLateInv, Outstanding
<1>m. ~failed => Len(lines) + Len(replies) <= 1
  BY <1>n
<1>1. CASE NotOpen
  BY <1>1 DEF NotOpen, Return
<1>2. CASE Write
  <2>1. ~failed /\ call = "idle" /\ call' = due /\ Counted(due) /\ UNCHANGED lines
        /\ replies' = Append(replies, Owed(due))
    BY <1>2 DEF Write
  <2>2. lines' = <<>> /\ replies' = <<Owed(due)>>
    BY <1>n, <2>1
  <2>3. OwnReply(replies[1])'
    BY <2>1, <2>2 DEF OwnReply, Owed
  <2>4. Outstanding' = 1 /\ call' # "idle"
    BY <1>t, <2>1, <2>2 DEF Outstanding
  <2> QED
    BY <2>2, <2>3, <2>4 DEF NotLateInv
<1>3. CASE WriteFails
  BY <1>3 DEF WriteFails, Return
<1>4. CASE ReadLine
  <2>1. ~failed /\ call' = "idle"
    BY <1>4 DEF ReadLine, Return
  <2>2. lines # <<>> /\ lines' = Tail(lines) /\ UNCHANGED replies
    BY <1>4 DEF ReadLine
  <2>3. lines' = <<>> /\ replies' = <<>>
    BY <1>t, <1>n, <2>1, <2>2
  <2> QED
    BY <2>1, <2>3 DEF NotLateInv, Outstanding
<1>5. CASE EmptyRead
  <2>1. UNCHANGED <<call, lines, replies, exchanges, failed>>
    BY <1>5 DEF EmptyRead, Return
  <2> QED
    BY <1>n, <2>1 DEF LateInv, NotLateInv, OwnReply, Outstanding
<1>6. CASE ReadFails
  BY <1>6 DEF ReadFails, Return
<1>7. CASE Open
  <2>1. port = "closed" /\ UNCHANGED <<call, lines, replies, exchanges>>
    BY <1>7 DEF Open
  <2>2. call = "idle" /\ lines = <<>>
    BY <1>t, <2>1 DEF LateInv, GoneInv
  <2>3. replies = <<>>
    BY <1>7, <1>n, <2>2 DEF Open
  <2> QED
    BY <2>1, <2>2, <2>3 DEF NotLateInv, Outstanding
<1>8. CASE Deinit
  <2>1. call = "idle" /\ Closed /\ UNCHANGED <<call, exchanges, failed>>
    BY <1>8 DEF Deinit
  <2>2. lines' = <<>> /\ Len(replies') = Len(replies) /\ replies' \in Seq(Line)
    BY <2>1, ClosedType
  <2>3. replies' = <<>>
    BY <1>n, <2>1, <2>2
  <2> QED
    BY <2>1, <2>2, <2>3 DEF NotLateInv, Outstanding
<1>9. CASE Killed
  BY <1>9 DEF Killed, Return
<1>10. CASE SendsPiece
  BY <1>10 DEF SendsPiece, LateInv, NotLateInv, OwnReply, Outstanding
<1>11. CASE SendsLine
  <2>1. /\ replies # <<>> /\ lines' = Append(lines, Head(replies)) /\ replies' = Tail(replies)
        /\ UNCHANGED <<call, exchanges, failed>>
    BY <1>11 DEF SendsLine
  <2>2. call # "idle" /\ lines = <<>> /\ Len(replies) = 1 /\ OwnReply(replies[1])
    <3>1. ~failed /\ replies # <<>>
      BY <2>1
    <3>2. call # "idle" /\ OwnReply(replies[1])
      BY <1>n, <2>1, <3>1
    <3>3. Len(lines) + Len(replies) <= 1
      BY <1>m, <3>1
    <3>4. Len(lines) = 0 /\ Len(replies) = 1
      <4>1. Len(replies) >= 1
        BY <1>t, <3>1
      <4>2. Len(lines) \in Nat /\ Len(replies) \in Nat
        BY <1>t
      <4> QED
        BY <3>3, <4>1, <4>2
    <3> QED
      BY <1>t, <3>2, <3>4
  <2>3. lines' = <<replies[1]>> /\ replies' = <<>>
    BY <1>t, <2>1, <2>2
  <2>4. OwnReply(lines[1])'
    BY <2>1, <2>2, <2>3 DEF OwnReply
  <2>5. Outstanding' = 1
    BY <2>3 DEF Outstanding
  <2> QED
    BY <2>1, <2>2, <2>3, <2>4, <2>5 DEF NotLateInv
<1>12. CASE Unplugged
  <2>1. replies' = <<>> /\ UNCHANGED <<call, exchanges, failed>>
    BY <1>12 DEF Unplugged
  <2>2. PICK n \in 0..Len(lines) : lines' = SubSeq(lines, 1, n)
    BY <1>12 DEF Unplugged
  <2>3. Len(lines') = n /\ n \in Nat /\ n <= Len(lines) /\ (lines' # <<>> => lines # <<>> /\ lines'[1] = lines[1])
    BY <1>t, <2>2
  <2>4. Outstanding' = n
    BY <2>1, <2>3 DEF Outstanding
  <2>5. n <= IF call = "idle" THEN 0 ELSE 1
    BY <1>t, <1>n, <2>1, <2>3
  <2>6. lines' # <<>> => OwnReply(lines[1])'
    BY <1>n, <2>1, <2>3 DEF OwnReply
  <2> QED
    BY <2>1, <2>4, <2>5, <2>6 DEF NotLateInv
<1>13. CASE UNCHANGED vars
  BY <1>13 DEF vars, LateInv, NotLateInv, OwnReply, Outstanding
<1> QED
  BY <1>1, <1>2, <1>3, <1>4, <1>5, <1>6, <1>7, <1>8, <1>9, <1>10, <1>11, <1>12, <1>13 DEF Next, HostStep

LEMMA LateAlways == Spec => [](TypeInv /\ LateInv)
<1>1. Init => TypeInv /\ LateInv
  BY TypeInit, LateInit
<1>2. TypeInv /\ LateInv /\ [Next]_vars => (TypeInv /\ LateInv)'
  BY TypeStep, GoneStep, NotLateStep DEF LateInv
<1> QED
  BY <1>1, <1>2, PTL DEF Spec

-----------------------------------------------------------------------------
\* What Transport promises.

\* Where the abstract transport stands: the answer that a caller has in hand.
AnswerNow == IF ret.call = "Transfer" /\ ret.ok /\ call = "idle" THEN ret.buf.from ELSE 0

LEMMA TransportInit == Init => Interface!Init
BY DEF Init, Interface!Init

\* A step that fails is one of Transport's Fails.
LEMMA Failing ==
  ASSUME failed' = TRUE, AnswerNow' = 0, (call = "Transfer")' = FALSE,
         exchanges' = exchanges \/ (call # "Transfer" /\ exchanges' = exchanges + 1)
  PROVE  Interface!Next
BY DEF Interface!Next, Interface!Fails, AnswerNow

LEMMA FailedReturn ==
  ASSUME NEW c, NEW buf, Return(c, FALSE, buf)
  PROVE  failed' = TRUE /\ AnswerNow' = 0 /\ (call = "Transfer")' = FALSE
<1>1. ret' = [call |-> c, ok |-> FALSE, buf |-> buf] /\ failed' = (failed \/ ~FALSE) /\ call' = "idle"
  BY DEF Return
<1>2. ret'.ok = FALSE
  BY <1>1
<1> QED
  BY <1>1, <1>2 DEF AnswerNow

\* A step that leaves the answer alone, and the call unless it is CSNHigh.
LEMMA Silent ==
  ASSUME UNCHANGED <<exchanges, failed>>, AnswerNow' = AnswerNow, (call = "Transfer")' = (call = "Transfer")
  PROVE  UNCHANGED Interface!vars
BY DEF Interface!vars, AnswerNow

\* Every step of the dongle's transport is one of Transport, or none.
LEMMA TransportStep ==
  TypeInv /\ LateInv /\ [Next]_vars => [Interface!Next]_(Interface!vars)
<1> SUFFICES ASSUME TypeInv, LateInv, [Next]_vars
             PROVE  [Interface!Next]_(Interface!vars)
  OBVIOUS
<1>t. /\ lines \in Seq(Line) /\ replies \in Seq(Line) /\ Len(lines) \in Nat /\ Len(replies) \in Nat
      /\ exchanges \in Nat /\ failed \in BOOLEAN /\ due \in {"Transfer", "CSNHigh"}
      /\ port = "closed" => call = "idle"
      /\ call # "idle" => call = due
  BY DEF TypeInv, TypeOK, CountInv
<1>1. CASE NotOpen \/ WriteFails
  <2>1. Return(due, FALSE, Own) /\ Counted(due) /\ call = "idle"
    BY <1>1 DEF NotOpen, WriteFails
  <2>2. exchanges' = exchanges \/ (call # "Transfer" /\ exchanges' = exchanges + 1)
    BY <2>1 DEF Counted
  <2> QED
    BY <2>1, <2>2, FailedReturn, Failing
<1>2. CASE Write
  <2>1. call = "idle" /\ call' = due /\ Counted(due) /\ UNCHANGED <<ret, failed>>
    BY <1>2 DEF Write
  <2>2. AnswerNow' = 0
    BY <1>t, <2>1 DEF AnswerNow
  <2>3. CASE due = "Transfer"
    <3>1. Interface!Transfer
      BY <2>1, <2>2, <2>3 DEF Interface!Transfer, Counted, AnswerNow
    <3> QED
      BY <3>1 DEF Interface!Next
  <2>4. CASE due = "CSNHigh"
    <3>1. exchanges' = exchanges /\ (call = "Transfer")' = FALSE /\ (call = "Transfer") = FALSE
      BY <2>1, <2>4 DEF Counted
    <3>2. CASE failed
      BY <2>1, <2>2, <3>1, <3>2, Failing
    <3>3. CASE ~failed
      <4>1. Interface!Recovers
        BY <1>t, <2>1, <2>2, <3>1, <3>3 DEF Interface!Recovers, AnswerNow
      <4> QED
        BY <4>1 DEF Interface!Next
    <3> QED
      BY <3>2, <3>3
  <2> QED
    BY <1>t, <2>3, <2>4
<1>4. CASE ReadLine
  <2>1. /\ call # "idle" /\ call = due /\ lines # <<>> /\ exchanges' = exchanges
    BY <1>t, <1>4 DEF ReadLine
  <2>2. Head(lines) \in Line /\ Head(lines) = lines[1] /\ 1 \in DOMAIN lines
    BY <1>t, <2>1
  <2>3. CASE call = "Transfer"
    <3>1. PICK r \in Decoded(Head(lines)) : Return("Transfer", r.ok, r.buf)
      BY <1>4, <2>3 DEF ReadLine
    <3>2. r.ok \in BOOLEAN
      BY <2>2, <3>1, DecodedType
    <3>3. CASE r.ok = FALSE
      <4>1. Return("Transfer", FALSE, r.buf)
        BY <3>1, <3>3
      <4> QED
        BY <2>1, <4>1, FailedReturn, Failing
    <3>4. CASE r.ok = TRUE
      <4>1. Return("Transfer", TRUE, r.buf)
        BY <3>1, <3>4
      <4>2. call' = "idle" /\ failed' = failed /\ ret' = [call |-> "Transfer", ok |-> TRUE, buf |-> r.buf]
        BY <1>t, <4>1 DEF Return
      <4>3. AnswerNow' = r.buf.from
        BY <4>2 DEF AnswerNow
      <4>4. CASE failed
        <5>1. r.buf.from \in {0, lines[1].of}
          BY <2>2, <3>1, DecodedType
        <5>2. lines[1].of \in Nat /\ lines[1].of <= exchanges
          BY <2>2 DEF TypeInv, OwnLines, Line
        <5>3. r.buf.from \in 0..exchanges
          BY <1>t, <5>1, <5>2
        <5>4. Interface!Answered
          BY <2>1, <2>3, <4>2, <4>3, <4>4, <5>3 DEF Interface!Answered, AnswerNow
        <5> QED
          BY <5>4 DEF Interface!Next
      <4>5. CASE ~failed
        <5>1. OwnReply(lines[1])
          BY <2>1, <4>5 DEF LateInv, NotLateInv
        <5>2. lines[1].kind = "hex" /\ lines[1].of = exchanges /\ lines[1].whole = TRUE
          BY <2>3, <5>1 DEF OwnReply
        <5>3. r.buf = [from |-> exchanges, full |-> TRUE]
          <6> DEFINE buf == [from |-> lines[1].of, full |-> TRUE]
          <6>1. r = [ok |-> TRUE, buf |-> buf]
            BY <2>2, <3>1, <5>2 DEF Decoded
          <6>2. buf = [from |-> exchanges, full |-> TRUE]
            BY <5>2
          <6> HIDE DEF buf
          <6> QED
            BY <6>1, <6>2
        <5>4. Interface!Answered
          BY <2>1, <2>3, <4>2, <4>3, <5>3 DEF Interface!Answered, AnswerNow
        <5> QED
          BY <5>4 DEF Interface!Next
      <4> QED
        BY <4>4, <4>5
    <3> QED
      BY <3>2, <3>3, <3>4
  <2>4. CASE call = "CSNHigh"
    <3> DEFINE ok == ExpectOK(Head(lines)).ok
    <3>1. Return("CSNHigh", ok, Own) /\ ok \in BOOLEAN
      BY <1>4, <2>2, <2>4 DEF ReadLine, ExpectOK, Line
    <3> HIDE DEF ok
    <3>2. CASE ok = FALSE
      <4>1. Return("CSNHigh", FALSE, Own)
        BY <3>1, <3>2
      <4> QED
        BY <2>1, <4>1, FailedReturn, Failing
    <3>3. CASE ok = TRUE
      <4>1. Return("CSNHigh", TRUE, Own)
        BY <3>1, <3>3
      <4>2. call' = "idle" /\ failed' = failed /\ ret' = [call |-> "CSNHigh", ok |-> TRUE, buf |-> Own]
        BY <1>t, <4>1 DEF Return
      <4>3. AnswerNow' = 0 /\ AnswerNow = 0
        BY <2>1, <4>2 DEF AnswerNow
      <4> QED
        BY <2>1, <2>4, <4>2, <4>3, Silent
    <3> QED
      BY <3>1, <3>2, <3>3
  <2> QED
    BY <1>t, <2>1, <2>3, <2>4
<1>5. CASE EmptyRead
  <2>1. CASE UNCHANGED <<call, ret, failed, exchanges>>
    BY <2>1, Silent DEF AnswerNow
  <2>2. CASE Return(call, FALSE, Own) /\ exchanges' = exchanges
    BY <2>2, FailedReturn, Failing
  <2> QED
    BY <1>5, <2>1, <2>2 DEF EmptyRead
<1>6. CASE ReadFails \/ Killed
  <2>1. PICK c \in {call, "CSNHigh"} : Return(c, FALSE, Own) /\ exchanges' = exchanges
    BY <1>6 DEF ReadFails, Killed
  <2> QED
    BY <2>1, FailedReturn, Failing
<1>7. CASE Open
  <2>1. /\ call = "idle" /\ UNCHANGED <<call, exchanges>>
        /\ ret' = [call |-> "none", ok |-> FALSE, buf |-> Own]
        /\ failed' = (failed /\ replies # <<>>)
    BY <1>t, <1>7 DEF Open
  <2>2. AnswerNow' = 0
    BY <2>1 DEF AnswerNow
  <2>3. CASE failed' = TRUE
    BY <2>1, <2>2, <2>3, Failing
  <2>4. CASE failed' = FALSE
    <3>1. Interface!Recovers
      BY <2>1, <2>2, <2>4 DEF Interface!Recovers, AnswerNow
    <3> QED
      BY <3>1 DEF Interface!Next
  <2> QED
    BY <1>t, <2>1, <2>3, <2>4
<1>8. CASE Deinit \/ SendsPiece \/ SendsLine \/ Unplugged \/ UNCHANGED vars
  <2>1. UNCHANGED <<call, ret, failed, exchanges>>
    BY <1>8 DEF Deinit, SendsPiece, SendsLine, Unplugged, vars
  <2> QED
    BY <2>1, Silent DEF AnswerNow
<1> QED
  BY <1>1, <1>2, <1>4, <1>5, <1>6, <1>7, <1>8 DEF Next, HostStep

\* Until the first call that fails or is cut short, a Transfer that returns nil
\* returns the bytes of its own exchange.
THEOREM Promise == Spec => ImplementsTransport
<1> QED
  BY TransportInit, TransportStep, LateAlways, PTL DEF Spec, ImplementsTransport, Interface!Spec

-----------------------------------------------------------------------------
\* How late the lines are.

Kind(c) == IF c = "Transfer" THEN "hex" ELSE "OK"

\* The command from which the order is counted: L1's next, or the first one that
\* a reopened port will see.
Coming == IF port = "closed" THEN "Transfer" ELSE due

\* The reply to the command k places before the command of c.
KindBefore(c, k) == IF k % 2 = 0 THEN Kind(c) ELSE Kind(Other(c))

\* The command itself is written already while its call runs.
Ahead == IF call = "idle" THEN 1 ELSE 0

\* As long as no command was left out, the lines outstanding answer the last
\* commands of L1's order; a dongle that is gone has lost the last of them.
OrderInv ==
  ~skipped /\ port # "hungUp" =>
    /\ \A i \in DOMAIN lines : lines[i].kind = KindBefore(Coming, Len(lines) + Len(replies) + Ahead - i)
    /\ \A i \in DOMAIN replies : replies[i].kind = KindBefore(Coming, Len(replies) + Ahead - i)

\* During a call, the first line is the one that its slip says.
SlipInv ==
  /\ call # "idle" /\ port # "hungUp" => Outstanding = slip + 1
  /\ ~skipped /\ call # "idle" /\ lines # <<>> => lines[1].kind = KindBefore(Coming, slip)

SlippedInv == OrderInv /\ SlipInv /\ OddSlipIsDetected

LEMMA SlippedInit == Init => SlippedInv
BY DEF Init, SlippedInv, OrderInv, SlipInv, OddSlipIsDetected

\* The other command is one place further.
LEMMA Alternate ==
  ASSUME NEW k \in Int
  PROVE  (k + 1) % 2 = 0 <=> k % 2 # 0
OBVIOUS

LEMMA OtherTwice ==
  ASSUME NEW c \in {"Transfer", "CSNHigh"}
  PROVE  Other(Other(c)) = c /\ Kind(Other(c)) # Kind(c) /\ Other(c) \in {"Transfer", "CSNHigh"}
BY DEF Other, Kind

\* A call that returns is one place further from every line that is left.
LEMMA OneFurther ==
  ASSUME NEW k \in Int, NEW c \in {"Transfer", "CSNHigh"}
  PROVE  KindBefore(Other(c), k + 1) = KindBefore(c, k)
<1>1. CASE k % 2 = 0
  <2>1. (k + 1) % 2 # 0
    BY <1>1, Alternate
  <2> QED
    BY <1>1, <2>1, OtherTwice DEF KindBefore
<1>2. CASE k % 2 # 0
  <2>1. (k + 1) % 2 = 0
    BY <1>2, Alternate
  <2> QED
    BY <1>2, <2>1, OtherTwice DEF KindBefore
<1> QED
  BY <1>1, <1>2

\* The facts about types that the steps below need.
LEMMA Types ==
  ASSUME TypeInv
  PROVE  /\ lines \in Seq(Line) /\ replies \in Seq(Line) /\ Len(lines) \in Nat /\ Len(replies) \in Nat
         /\ DOMAIN lines = 1..Len(lines) /\ DOMAIN replies = 1..Len(replies)
         /\ exchanges \in Nat /\ slip \in Nat /\ skipped \in BOOLEAN
         /\ due \in {"Transfer", "CSNHigh"} /\ Coming \in {"Transfer", "CSNHigh"}
         /\ Ahead \in {0, 1}
         /\ port = "closed" => call = "idle"
         /\ call # "idle" => call = due
<1>1. slip \in Nat
  BY UsbDongleAssumption DEF TypeInv, TypeOK
<1> QED
  BY <1>1 DEF TypeInv, TypeOK, CountInv, Coming, Ahead

\* A step that leaves lines and order alone.
LEMMA OrderKept ==
  ASSUME TypeInv, OrderInv, UNCHANGED <<lines, replies, skipped>>, Coming' = Coming, Ahead' = Ahead,
         port = "hungUp" => port' = "hungUp"
  PROVE  OrderInv'
<1>1. \A k \in Int : KindBefore(Coming', k) = KindBefore(Coming, k)
  OBVIOUS
<1>2. /\ Len(lines) \in Nat /\ Len(replies) \in Nat /\ Ahead \in {0, 1}
      /\ DOMAIN lines = 1..Len(lines) /\ DOMAIN replies = 1..Len(replies)
  BY Types
<1>3. \A i \in DOMAIN lines : Len(lines) + Len(replies) + Ahead - i \in Int
  BY <1>2
<1>4. \A i \in DOMAIN replies : Len(replies) + Ahead - i \in Int
  BY <1>2
<1> QED
  BY <1>1, <1>3, <1>4 DEF OrderInv

\* The order of the replies, once the lines are gone or were none.
LEMMA RepliesOnly ==
  ASSUME TypeInv, lines' = <<>>,
         Len(replies') = Len(replies), replies' \in Seq(Line),
         \A i \in DOMAIN replies' : replies'[i].kind = replies[i].kind,
         skipped' \/ \A i \in DOMAIN replies : replies[i].kind = KindBefore(Coming, Len(replies) + Ahead - i),
         \/ Coming' = Coming /\ Ahead' = Ahead
         \/ Coming' = Other(Coming) /\ Ahead = 0 /\ Ahead' = 1
  PROVE  OrderInv'
<1>t. Len(replies) \in Nat /\ Ahead \in {0, 1} /\ Coming \in {"Transfer", "CSNHigh"} /\ DOMAIN replies = 1..Len(replies)
  BY Types
<1> SUFFICES ASSUME ~skipped', NEW i \in 1..Len(replies)
             PROVE  replies'[i].kind = KindBefore(Coming', Len(replies') + Ahead' - i)
  BY DEF OrderInv
<1>1. replies'[i].kind = KindBefore(Coming, Len(replies) + Ahead - i)
  BY <1>t
<1>2. CASE Coming' = Coming /\ Ahead' = Ahead
  <2> DEFINE k == Len(replies) + Ahead - i
  <2>1. k \in Int
    BY <1>t
  <2>2. KindBefore(Coming', Len(replies') + Ahead' - i) = KindBefore(Coming, Len(replies) + Ahead - i)
    BY <1>2
  <2> QED
    BY <1>1, <2>2
<1>3. CASE Coming' = Other(Coming) /\ Ahead = 0 /\ Ahead' = 1
  <2> DEFINE k == Len(replies) - i
  <2>1. k \in Int /\ Len(replies) + Ahead - i = k /\ Len(replies') + Ahead' - i = k + 1
    BY <1>t, <1>3
  <2> HIDE DEF k
  <2>2. KindBefore(Coming', Len(replies') + Ahead' - i) = KindBefore(Coming, k)
    BY <1>t, <1>3, <2>1, OneFurther
  <2> QED
    BY <1>1, <2>1, <2>2
<1> QED
  BY <1>2, <1>3

\* A command that is written takes the last place.
LEMMA OrderOwed ==
  ASSUME TypeInv, OrderInv, call = "idle", port = "open", UNCHANGED <<port, lines, skipped>>,
         replies' = Append(replies, Owed(due)),
         \/ UNCHANGED due /\ call' = due
         \/ due' = Other(due) /\ call' = "idle"
  PROVE  OrderInv'
<1>t. /\ lines \in Seq(Line) /\ replies \in Seq(Line) /\ Len(lines) \in Nat /\ Len(replies) \in Nat
      /\ DOMAIN lines = 1..Len(lines) /\ DOMAIN replies = 1..Len(replies)
      /\ due \in {"Transfer", "CSNHigh"} /\ Coming \in {"Transfer", "CSNHigh"}
  BY Types
<1>1. Ahead = 1 /\ Coming = due
  BY DEF Ahead, Coming
<1>2. \A k \in Int : KindBefore(Coming', k + Ahead') = KindBefore(Coming, k)
  <2>1. CASE UNCHANGED due /\ call' = due
    <3>1. Coming' = Coming /\ Ahead' = 0
      BY <1>t, <2>1 DEF Coming, Ahead
    <3> QED
      BY <3>1
  <2>2. CASE due' = Other(due) /\ call' = "idle"
    <3>1. Coming' = Other(Coming) /\ Ahead' = 1
      BY <2>2 DEF Coming, Ahead
    <3> QED
      BY <1>t, <3>1, OneFurther
  <2> QED
    BY <2>1, <2>2
<1>3. Ahead' \in {0, 1}
  BY DEF Ahead
<1>4. DOMAIN replies' = 1..(Len(replies) + 1) /\ Len(replies') = Len(replies) + 1
  BY <1>t
<1>5. replies'[Len(replies) + 1].kind = Kind(due) /\ \A i \in 1..Len(replies) : replies'[i] = replies[i]
  <2> DEFINE l == Owed(due)
  <2>1. l.kind = Kind(due)
    BY DEF Owed, Kind
  <2> HIDE DEF l
  <2>2. replies' = Append(replies, l)
    BY DEF l
  <2> QED
    BY <1>t, <2>1, <2>2
<1>6. KindBefore(Coming, 0) = Kind(due)
  BY <1>1 DEF KindBefore
<1> SUFFICES ASSUME ~skipped'
             PROVE  /\ \A i \in DOMAIN lines : lines[i].kind = KindBefore(Coming', Len(lines') + Len(replies') + Ahead' - i)
                    /\ \A i \in DOMAIN replies' : replies'[i].kind = KindBefore(Coming', Len(replies') + Ahead' - i)
  BY DEF OrderInv
<1>7. \A i \in DOMAIN lines : lines[i].kind = KindBefore(Coming', Len(lines') + Len(replies') + Ahead' - i)
  <2> SUFFICES ASSUME NEW i \in 1..Len(lines)
               PROVE  lines[i].kind = KindBefore(Coming', Len(lines') + Len(replies') + Ahead' - i)
    BY <1>t
  <2> DEFINE k == Len(lines) + Len(replies) + 1 - i
  <2>1. k \in Int /\ Len(lines') + Len(replies') + Ahead' - i = k + Ahead'
    BY <1>t, <1>3, <1>4
  <2>2. lines[i].kind = KindBefore(Coming, k)
    BY <1>t, <1>1 DEF OrderInv
  <2> HIDE DEF k
  <2>3. KindBefore(Coming', Len(lines') + Len(replies') + Ahead' - i) = KindBefore(Coming', k + Ahead')
    BY <2>1
  <2> QED
    BY <1>2, <2>1, <2>2, <2>3
<1>8. \A i \in DOMAIN replies' : replies'[i].kind = KindBefore(Coming', Len(replies') + Ahead' - i)
  <2> SUFFICES ASSUME NEW i \in 1..(Len(replies) + 1)
               PROVE  replies'[i].kind = KindBefore(Coming', Len(replies') + Ahead' - i)
    BY <1>4
  <2> DEFINE k == Len(replies) + 1 - i
  <2>1. k \in Int /\ Len(replies') + Ahead' - i = k + Ahead'
    BY <1>t, <1>3, <1>4
  <2>2. replies'[i].kind = KindBefore(Coming, k)
    <3>1. CASE i = Len(replies) + 1
      BY <1>t, <1>5, <1>6, <3>1
    <3>2. CASE i # Len(replies) + 1
      <4>1. i \in 1..Len(replies)
        BY <1>t, <3>2
      <4> QED
        BY <1>t, <1>1, <1>5, <4>1 DEF OrderInv
    <3> QED
      BY <3>1, <3>2
  <2> HIDE DEF k
  <2>3. KindBefore(Coming', Len(replies') + Ahead' - i) = KindBefore(Coming', k + Ahead')
    BY <2>1
  <2> QED
    BY <1>2, <2>1, <2>2, <2>3
<1> QED
  BY <1>7, <1>8

LEMMA OrderStep == TypeInv /\ GoneInv /\ OrderInv /\ [Next]_vars => OrderInv'
<1> SUFFICES ASSUME TypeInv, GoneInv, OrderInv, [Next]_vars
             PROVE  OrderInv'
  OBVIOUS
<1>t. /\ lines \in Seq(Line) /\ replies \in Seq(Line) /\ Len(lines) \in Nat /\ Len(replies) \in Nat
      /\ DOMAIN lines = 1..Len(lines) /\ DOMAIN replies = 1..Len(replies)
      /\ due \in {"Transfer", "CSNHigh"} /\ Coming \in {"Transfer", "CSNHigh"} /\ Ahead \in {0, 1}
      /\ port = "closed" => call = "idle"
      /\ call # "idle" => call = due
      /\ skipped \in BOOLEAN
  BY Types
<1>r. ~skipped /\ port # "hungUp" => \A i \in DOMAIN replies : replies[i].kind = KindBefore(Coming, Len(replies) + Ahead - i)
  BY DEF OrderInv
<1>e. port = "hungUp" => Len(replies) = 0
  BY DEF GoneInv
<1>f. port = "hungUp" => \A i \in DOMAIN replies : replies[i].kind = KindBefore(Coming, Len(replies) + Ahead - i)
  BY <1>t, <1>e
<1>1. CASE NotOpen
  <2>1. UNCHANGED <<port, lines, replies, skipped>> /\ port = "closed" /\ call = "idle" /\ call' = "idle"
    BY <1>1 DEF NotOpen, Return
  <2>2. Coming' = Coming /\ Ahead' = Ahead
    BY <2>1 DEF Coming, Ahead
  <2> QED
    BY <2>1, <2>2, OrderKept
<1>2. CASE Write
  BY <1>2, OrderOwed DEF Write
<1>3. CASE WriteFails
  <2>1. CASE skipped' = TRUE
    BY <2>1 DEF OrderInv
  <2>2. CASE port = "open" /\ replies' = Append(replies, Owed(due)) /\ UNCHANGED skipped
    BY <1>3, <2>2, OrderOwed DEF WriteFails, Return
  <2> QED
    BY <1>3, <2>1, <2>2 DEF WriteFails
<1>4. CASE ReadLine
  <2>1. /\ call # "idle" /\ call' = "idle" /\ due' = Other(due) /\ UNCHANGED <<port, replies, skipped>>
        /\ lines # <<>> /\ lines' = Tail(lines)
    BY <1>t, <1>4 DEF ReadLine, Return
  <2>2. /\ Len(lines') = Len(lines) - 1 /\ DOMAIN lines' = 1..(Len(lines) - 1)
        /\ \A i \in 1..(Len(lines) - 1) : lines'[i] = lines[i + 1]
    BY <1>t, <2>1
  <2>3. Coming' = Other(Coming) /\ Ahead = 0 /\ Ahead' = 1
    BY <1>t, <2>1 DEF Coming, Ahead
  <2>4. \A k \in Int : KindBefore(Coming', k + 1) = KindBefore(Coming, k)
    BY <1>t, <2>3, OneFurther
  <2> SUFFICES ASSUME ~skipped, port # "hungUp"
               PROVE  /\ \A i \in DOMAIN lines' : lines'[i].kind = KindBefore(Coming', Len(lines') + Len(replies') + Ahead' - i)
                      /\ \A i \in DOMAIN replies : replies[i].kind = KindBefore(Coming', Len(replies') + Ahead' - i)
    BY <2>1 DEF OrderInv
  <2>5. ASSUME NEW i \in 1..(Len(lines) - 1)
        PROVE  lines'[i].kind = KindBefore(Coming', Len(lines') + Len(replies') + Ahead' - i)
    <3> DEFINE k == Len(lines) + Len(replies) - (i + 1)
    <3>1. k \in Int /\ Len(lines') + Len(replies') + Ahead' - i = k + 1 /\ i + 1 \in 1..Len(lines)
      BY <1>t, <2>1, <2>2, <2>3
    <3>2. lines[i + 1].kind = KindBefore(Coming, k)
      <4>1. Len(lines) + Len(replies) + Ahead - (i + 1) = k
        BY <1>t, <2>3
      <4> QED
        BY <1>t, <3>1, <4>1 DEF OrderInv
    <3> HIDE DEF k
    <3>3. KindBefore(Coming', Len(lines') + Len(replies') + Ahead' - i) = KindBefore(Coming', k + 1)
      BY <3>1
    <3> QED
      BY <2>2, <2>4, <3>1, <3>2, <3>3
  <2>6. ASSUME NEW i \in 1..Len(replies)
        PROVE  replies[i].kind = KindBefore(Coming', Len(replies') + Ahead' - i)
    <3> DEFINE k == Len(replies) - i
    <3>0. Len(replies') = Len(replies)
      BY <2>1
    <3>a. Ahead = 0 /\ Ahead' = 1 /\ Len(replies) \in Nat
      BY <1>t, <2>3
    <3>1. k \in Int /\ Len(replies') + Ahead' - i = k + 1 /\ Len(replies) + Ahead - i = k
      BY <3>0, <3>a
    <3>2. replies[i].kind = KindBefore(Coming, k)
      BY <1>t, <1>r, <3>1
    <3> HIDE DEF k
    <3>3. KindBefore(Coming', Len(replies') + Ahead' - i) = KindBefore(Coming', k + 1)
      BY <3>1
    <3> QED
      BY <2>4, <3>1, <3>2, <3>3
  <2> QED
    BY <1>t, <2>2, <2>5, <2>6
<1>5. CASE EmptyRead
  <2>1. call # "idle" /\ lines = <<>> /\ UNCHANGED <<port, lines, skipped>> /\ port = "open"
    BY <1>5 DEF EmptyRead
  <2>2. CASE UNCHANGED <<call, due, replies>>
    <3>1. Coming' = Coming /\ Ahead' = Ahead
      BY <2>1, <2>2 DEF Coming, Ahead
    <3> QED
      BY <2>1, <2>2, <3>1, OrderKept
  <2>3. CASE Return(call, FALSE, Own) /\ Dropped
    <3>1. Coming' = Other(Coming) /\ Ahead = 0 /\ Ahead' = 1
      BY <1>t, <2>1, <2>3 DEF Coming, Ahead, Return
    <3>2. /\ Len(replies') = Len(replies) /\ replies' \in Seq(Line)
          /\ \A i \in DOMAIN replies' : replies'[i].kind = replies[i].kind
      BY <2>3, DroppedType
    <3>3. skipped' \/ \A i \in DOMAIN replies : replies[i].kind = KindBefore(Coming, Len(replies) + Ahead - i)
      BY <1>r, <2>1
    <3> QED
      BY <2>1, <3>1, <3>2, <3>3, RepliesOnly
  <2> QED
    BY <1>5, <2>2, <2>3 DEF EmptyRead
<1>6. CASE ReadFails
  BY <1>6 DEF ReadFails, OrderInv
<1>7. CASE Open
  <2>1. /\ port = "closed" /\ due = "Transfer" /\ port' = "open" /\ UNCHANGED <<call, due, lines, replies>>
        /\ skipped' = (skipped /\ replies # <<>>)
    BY <1>7 DEF Open
  <2>2. Coming' = Coming /\ Ahead' = Ahead /\ lines' = <<>>
    BY <2>1 DEF Coming, Ahead, GoneInv
  <2>3. skipped' \/ \A i \in DOMAIN replies : replies[i].kind = KindBefore(Coming, Len(replies) + Ahead - i)
    <3>1. CASE replies = <<>>
      BY <3>1
    <3>2. CASE replies # <<>>
      BY <1>t, <1>r, <2>1, <3>2
    <3> QED
      BY <3>1, <3>2
  <2> QED
    BY <1>t, <2>1, <2>2, <2>3, RepliesOnly
<1>8. CASE Deinit
  <2>1. /\ Closed /\ call = "idle" /\ due = "Transfer" /\ port # "closed"
        /\ UNCHANGED <<call, due, exchanges, skipped>>
    BY <1>8 DEF Deinit
  <2>2. port' = "closed" /\ lines' = <<>> /\ Dropped
    BY <2>1 DEF Closed
  <2>3. Coming' = Coming /\ Ahead' = Ahead
    BY <2>1, <2>2 DEF Coming, Ahead
  <2>4. /\ Len(replies') = Len(replies) /\ replies' \in Seq(Line)
        /\ \A i \in DOMAIN replies' : replies'[i].kind = replies[i].kind
    BY <2>2, DroppedType
  <2>5. skipped' \/ \A i \in DOMAIN replies : replies[i].kind = KindBefore(Coming, Len(replies) + Ahead - i)
    BY <1>r, <1>f, <2>1
  <2> QED
    BY <2>2, <2>3, <2>4, <2>5, RepliesOnly
<1>9. CASE Killed
  <2>1. /\ Closed /\ call' = "idle" /\ due' = "Transfer" /\ port # "closed"
        /\ skipped' = (skipped \/ call # "CSNHigh")
    BY <1>9 DEF Killed, Return, Other
  <2>2. port' = "closed" /\ lines' = <<>> /\ Dropped
    BY <2>1 DEF Closed
  <2> SUFFICES ASSUME ~skipped', port # "hungUp" \/ port = "hungUp"
               PROVE  OrderInv'
    BY DEF OrderInv
  <2>3. ~skipped /\ call = "CSNHigh" /\ due = "CSNHigh" /\ port # "closed"
    BY <1>t, <2>1
  <2>4. Coming' = Other(Coming) /\ Ahead = 0 /\ Ahead' = 1
    BY <2>1, <2>2, <2>3 DEF Coming, Ahead, Other
  <2>5. /\ Len(replies') = Len(replies) /\ replies' \in Seq(Line)
        /\ \A i \in DOMAIN replies' : replies'[i].kind = replies[i].kind
    BY <2>2, DroppedType
  <2>6. \A i \in DOMAIN replies : replies[i].kind = KindBefore(Coming, Len(replies) + Ahead - i)
    BY <1>r, <1>f, <2>3
  <2> QED
    BY <2>2, <2>4, <2>5, <2>6, RepliesOnly
<1>10. CASE SendsPiece
  <2>1. UNCHANGED <<port, call, due, lines, replies, skipped>>
    BY <1>10 DEF SendsPiece
  <2>2. Coming' = Coming /\ Ahead' = Ahead
    BY <2>1 DEF Coming, Ahead
  <2> QED
    BY <2>1, <2>2, OrderKept
<1>11. CASE SendsLine
  <2>1. /\ replies # <<>> /\ lines' = Append(lines, Head(replies)) /\ replies' = Tail(replies)
        /\ UNCHANGED <<port, call, due, skipped>> /\ port = "open"
    BY <1>11 DEF SendsLine
  <2>2. Coming' = Coming /\ Ahead' = Ahead
    BY <2>1 DEF Coming, Ahead
  <2>3. \A k \in Int : KindBefore(Coming', k) = KindBefore(Coming, k)
    BY <2>2
  <2>4. /\ Len(lines') = Len(lines) + 1 /\ DOMAIN lines' = 1..(Len(lines) + 1)
        /\ lines'[Len(lines) + 1] = replies[1]
        /\ \A i \in 1..Len(lines) : lines'[i] = lines[i]
        /\ Len(replies) >= 1
        /\ Len(replies') = Len(replies) - 1 /\ DOMAIN replies' = 1..(Len(replies) - 1)
        /\ \A i \in 1..(Len(replies) - 1) : replies'[i] = replies[i + 1]
    BY <1>t, <2>1
  <2> SUFFICES ASSUME ~skipped, port # "hungUp"
               PROVE  /\ \A i \in DOMAIN lines' : lines'[i].kind = KindBefore(Coming', Len(lines') + Len(replies') + Ahead' - i)
                      /\ \A i \in DOMAIN replies' : replies'[i].kind = KindBefore(Coming', Len(replies') + Ahead' - i)
    BY <2>1 DEF OrderInv
  <2>5. ASSUME NEW i \in 1..(Len(lines) + 1)
        PROVE  lines'[i].kind = KindBefore(Coming', Len(lines') + Len(replies') + Ahead' - i)
    <3> DEFINE k == Len(lines) + Len(replies) + Ahead - i
    <3>1. k \in Int /\ Len(lines') + Len(replies') + Ahead' - i = k
      BY <1>t, <2>2, <2>4
    <3>2. lines'[i].kind = KindBefore(Coming, k)
      <4>1. CASE i = Len(lines) + 1
        <5>1. 1 \in DOMAIN replies /\ Len(replies) + Ahead - 1 = k
          BY <1>t, <2>4, <4>1
        <5> HIDE DEF k
        <5> QED
          BY <1>r, <2>4, <4>1, <5>1
      <4>2. CASE i # Len(lines) + 1
        <5>1. i \in 1..Len(lines)
          BY <1>t, <4>2
        <5> QED
          BY <1>t, <2>4, <5>1 DEF OrderInv
      <4> QED
        BY <4>1, <4>2
    <3> HIDE DEF k
    <3>3. KindBefore(Coming', Len(lines') + Len(replies') + Ahead' - i) = KindBefore(Coming', k)
      BY <3>1
    <3> QED
      BY <2>3, <3>1, <3>2, <3>3
  <2>6. ASSUME NEW i \in 1..(Len(replies) - 1)
        PROVE  replies'[i].kind = KindBefore(Coming', Len(replies') + Ahead' - i)
    <3> DEFINE k == Len(replies) + Ahead - (i + 1)
    <3>1. k \in Int /\ Len(replies') + Ahead' - i = k /\ i + 1 \in DOMAIN replies
      BY <1>t, <2>2, <2>4
    <3>2. replies[i + 1].kind = KindBefore(Coming, k)
      BY <1>r, <3>1
    <3> HIDE DEF k
    <3>3. KindBefore(Coming', Len(replies') + Ahead' - i) = KindBefore(Coming', k)
      BY <3>1
    <3> QED
      BY <2>3, <2>4, <3>1, <3>2, <3>3
  <2> QED
    BY <2>4, <2>5, <2>6
<1>12. CASE Unplugged
  <2>1. CASE port = "closed"
    <3>1. lines = <<>> /\ Len(lines) = 0
      BY <2>1 DEF GoneInv
    <3>2. lines' = SubSeq(<<>>, 1, 0) /\ replies' = <<>>
      BY <1>12, <3>1 DEF Unplugged
    <3>3. lines' = <<>>
      BY <3>2
    <3> QED
      BY <3>2, <3>3 DEF OrderInv
  <2>2. CASE port # "closed"
    BY <1>12, <2>2 DEF Unplugged, OrderInv
  <2> QED
    BY <2>1, <2>2
<1>13. CASE UNCHANGED vars
  <2>1. UNCHANGED <<port, call, due, lines, replies, skipped>>
    BY <1>13 DEF vars
  <2>2. Coming' = Coming /\ Ahead' = Ahead
    BY <2>1 DEF Coming, Ahead
  <2> QED
    BY <2>1, <2>2, OrderKept
<1> QED
  BY <1>1, <1>2, <1>3, <1>4, <1>5, <1>6, <1>7, <1>8, <1>9, <1>10, <1>11, <1>12, <1>13 DEF Next, HostStep

\* A call that is written has everything outstanding before it.
LEMMA SlipStep == TypeInv /\ GoneInv /\ OrderInv /\ SlipInv /\ [Next]_vars => SlipInv'
<1> SUFFICES ASSUME TypeInv, GoneInv, OrderInv, SlipInv, [Next]_vars, call' # "idle"
             PROVE  SlipInv'
  BY DEF SlipInv
<1>t. /\ lines \in Seq(Line) /\ replies \in Seq(Line) /\ Len(lines) \in Nat /\ Len(replies) \in Nat
      /\ DOMAIN lines = 1..Len(lines) /\ DOMAIN replies = 1..Len(replies)
      /\ slip \in Nat
      /\ port = "closed" => call = "idle"
      /\ call # "idle" => call = due
  BY Types
<1>1. CASE Write
  <2>1. /\ port = "open" /\ call = "idle" /\ slip' = Len(lines) + Len(replies)
        /\ replies' = Append(replies, Owed(due)) /\ UNCHANGED <<port, due, lines, skipped>>
    BY <1>1 DEF Write
  <2>2. Coming' = Coming /\ Ahead = 1
    BY <2>1 DEF Coming, Ahead
  <2>3. Len(replies') = Len(replies) + 1
    BY <1>t, <2>1
  <2>4. Outstanding' = slip' + 1
    BY <1>t, <2>1, <2>3 DEF Outstanding
  <2>5. ASSUME ~skipped, lines # <<>>
        PROVE  lines[1].kind = KindBefore(Coming, slip')
    <3>1. 1 \in DOMAIN lines /\ Len(lines) + Len(replies) + Ahead - 1 = slip'
      BY <1>t, <2>1, <2>2, <2>5
    <3> QED
      BY <2>1, <2>5, <3>1 DEF OrderInv
  <2> QED
    BY <2>1, <2>2, <2>4, <2>5 DEF SlipInv
<1>2. CASE EmptyRead
  <2>1. UNCHANGED <<port, call, due, lines, replies, skipped, slip>>
    BY <1>2 DEF EmptyRead, Return
  <2> QED
    BY <2>1 DEF SlipInv, Outstanding, Coming
<1>3. CASE SendsLine
  <2>1. /\ replies # <<>> /\ lines' = Append(lines, Head(replies)) /\ replies' = Tail(replies)
        /\ UNCHANGED <<port, call, due, skipped, slip>> /\ port = "open"
    BY <1>3 DEF SendsLine
  <2>2. Coming' = Coming /\ Ahead = 0
    BY <2>1 DEF Coming, Ahead
  <2>3. Len(lines') = Len(lines) + 1 /\ Len(replies') = Len(replies) - 1 /\ Len(replies) >= 1
    BY <1>t, <2>1
  <2>4. Outstanding' = Outstanding
    BY <1>t, <2>3 DEF Outstanding
  <2>5. Outstanding = slip + 1
    BY <2>1 DEF SlipInv
  <2>6. ASSUME ~skipped
        PROVE  lines'[1].kind = KindBefore(Coming, slip)
    <3>1. CASE lines = <<>>
      <4>1. Len(lines) = 0 /\ lines'[1] = replies[1]
        BY <1>t, <2>1, <3>1
      <4>a. Len(replies) \in Nat /\ slip \in Nat /\ Len(lines) = 0 /\ Len(replies) >= 1 /\ Ahead = 0
        BY <1>t, <2>2, <2>3, <4>1
      <4>b. Len(replies) = slip + 1
        BY <2>5, <4>a DEF Outstanding
      <4>2. 1 \in DOMAIN replies /\ Len(replies) + Ahead - 1 = slip
        BY <1>t, <4>a, <4>b
      <4> QED
        BY <2>1, <2>6, <4>1, <4>2 DEF OrderInv
    <3>2. CASE lines # <<>>
      <4>1. lines'[1] = lines[1]
        BY <1>t, <2>1, <3>2
      <4> QED
        BY <2>1, <2>6, <3>2, <4>1 DEF SlipInv
    <3> QED
      BY <3>1, <3>2
  <2> QED
    BY <2>1, <2>2, <2>4, <2>5, <2>6 DEF SlipInv
<1>4. CASE Unplugged
  <2>1. UNCHANGED <<call, due, skipped, slip>> /\ port # "closed" /\ port' = "hungUp"
    BY <1>t, <1>4 DEF Unplugged
  <2>2. PICK n \in 0..Len(lines) : lines' = SubSeq(lines, 1, n)
    BY <1>4 DEF Unplugged
  <2>3. lines' # <<>> => lines # <<>> /\ lines'[1] = lines[1]
    BY <1>t, <2>2
  <2>4. Coming' = Coming
    BY <2>1 DEF Coming
  <2> QED
    BY <2>1, <2>3, <2>4 DEF SlipInv
<1>5. CASE SendsPiece \/ UNCHANGED vars
  <2>1. UNCHANGED <<port, call, due, lines, replies, skipped, slip>>
    BY <1>5 DEF SendsPiece, vars
  <2> QED
    BY <2>1 DEF SlipInv, Outstanding, Coming
<1>6. ~(NotOpen \/ WriteFails \/ ReadLine \/ ReadFails \/ Open \/ Deinit \/ Killed)
  BY <1>t DEF NotOpen, WriteFails, ReadLine, ReadFails, Open, Deinit, Killed, Return
<1> QED
  BY <1>1, <1>2, <1>3, <1>4, <1>5, <1>6 DEF Next, HostStep

\* Data of an older exchange, or OK, comes from a line of the kind that is due.
LEMMA OddSlipStep == TypeInv /\ SlipInv /\ OddSlipIsDetected /\ [Next]_vars => OddSlipIsDetected'
<1> SUFFICES ASSUME TypeInv, SlipInv, OddSlipIsDetected, [Next]_vars, ~skipped', ret'.ok, call' = "idle"
             PROVE  OddSlipIsDetected'
  BY DEF OddSlipIsDetected
<1>t. /\ lines \in Seq(Line) /\ slip \in Nat /\ due \in {"Transfer", "CSNHigh"}
      /\ port = "closed" => call = "idle"
      /\ call # "idle" => call = due
  BY Types
<1>1. CASE ReadLine
  <2>1. /\ call # "idle" /\ lines # <<>> /\ UNCHANGED <<skipped, slip>>
    BY <1>1 DEF ReadLine
  <2>2. Head(lines) = lines[1] /\ lines[1] \in Line /\ Coming = call /\ call \in {"Transfer", "CSNHigh"}
    BY <1>t, <2>1 DEF Coming
  <2>3. lines[1].kind = KindBefore(call, slip)
    BY <2>1, <2>2 DEF SlipInv
  <2>4. lines[1].kind = Kind(call) => slip % 2 = 0
    BY <2>2, <2>3, OtherTwice DEF KindBefore
  <2>5. CASE call = "CSNHigh"
    <3>1. ret' = [call |-> "CSNHigh", ok |-> ExpectOK(lines[1]).ok, buf |-> Own]
      BY <1>1, <2>2, <2>5 DEF ReadLine, Return, ExpectOK
    <3>2. lines[1].kind = "OK"
      BY <3>1 DEF ExpectOK
    <3> QED
      BY <2>1, <2>4, <2>5, <3>2 DEF Kind, OddSlipIsDetected
  <2>6. CASE call = "Transfer"
    <3>1. PICK r \in Decoded(lines[1]) : Return("Transfer", r.ok, r.buf)
      BY <1>1, <2>2, <2>6 DEF ReadLine
    <3>2. ret'.call = "Transfer" /\ ret'.ok = r.ok /\ ret'.buf = r.buf
      BY <3>1 DEF Return
    <3>3. r.buf.full /\ r.buf.from # 0 => lines[1].kind = "hex"
      BY <3>1 DEF Decoded, Own
    <3> QED
      BY <2>1, <2>4, <2>6, <3>2, <3>3 DEF Kind, OddSlipIsDetected
  <2> QED
    BY <2>2, <2>5, <2>6
<1>2. CASE SendsPiece \/ SendsLine \/ Unplugged \/ Deinit \/ UNCHANGED vars
  <2>1. UNCHANGED <<call, ret, skipped, slip>>
    BY <1>2 DEF SendsPiece, SendsLine, Unplugged, Deinit, vars
  <2> QED
    BY <2>1 DEF OddSlipIsDetected
<1>3. CASE Open
  <2>1. ret' = [call |-> "none", ok |-> FALSE, buf |-> Own]
    BY <1>3 DEF Open
  <2>2. ret'.ok = FALSE
    BY <2>1
  <2> QED
    BY <2>2
<1>4. CASE NotOpen \/ WriteFails \/ ReadFails \/ Killed
  <2>1. PICK c \in {due, call, "CSNHigh"} : ret' = [call |-> c, ok |-> FALSE, buf |-> Own]
    BY <1>4 DEF NotOpen, WriteFails, ReadFails, Killed, Return
  <2>2. ret'.ok = FALSE
    BY <2>1
  <2> QED
    BY <2>2
<1>5. CASE EmptyRead
  <2>1. call # "idle"
    BY <1>5 DEF EmptyRead
  <2>2. Return(call, FALSE, Own)
    BY <1>5, <2>1 DEF EmptyRead
  <2>3. ret' = [call |-> call, ok |-> FALSE, buf |-> Own]
    BY <2>2 DEF Return
  <2>4. ret'.ok = FALSE
    BY <2>3
  <2> QED
    BY <2>4
<1>6. CASE Write
  BY <1>t, <1>6 DEF Write
<1> QED
  BY <1>1, <1>2, <1>3, <1>4, <1>5, <1>6 DEF Next, HostStep

\* As long as L1's order of commands was kept, a connection that is an odd number
\* of lines late returns no older data and no OK.
THEOREM OddSlip == Spec => []OddSlipIsDetected
<1>1. Init => TypeInv /\ GoneInv /\ SlippedInv
  BY TypeInit, LateInit, SlippedInit DEF LateInv
<1>2. TypeInv /\ GoneInv /\ SlippedInv /\ [Next]_vars => (TypeInv /\ GoneInv /\ SlippedInv)'
  BY TypeStep, GoneStep, OrderStep, SlipStep, OddSlipStep DEF SlippedInv
<1>3. SlippedInv => OddSlipIsDetected
  BY DEF SlippedInv
<1> QED
  BY <1>1, <1>2, <1>3, PTL DEF Spec

-----------------------------------------------------------------------------
\* How long a call takes.

\* Reads without a byte that bufio allows while n more pieces of a line may come: its
\* limit for each.
EmptyReadsFor(n) == n * EmptyReads

\* Reads of the port that a call has yet to make: the one that gives a line or an error
\* when that is there; else those that bufio allows without a byte, and as many more
\* after each piece that the line may still come in.
ReadsLeft ==
  IF call = "idle" THEN 0
  ELSE IF lines # <<>> \/ port # "open" THEN 1
  ELSE EmptyReadsFor(LinePieces - pieces) - empty

\* A call makes at most EmptyReads reads without a byte for each piece that a line may
\* come in: each read uses one up, and nothing that the dongle or the port does
\* meanwhile adds to them.
CallIsBounded ==
  [][ /\ ReadsLeft' \in 0..(IF call = "idle" THEN EmptyReadsFor(LinePieces) ELSE ReadsLeft)
      /\ HostStep => ReadsLeft' < ReadsLeft ]_vars

\* The limit is there for every piece.
LEMMA EmptyReadsAddUp ==
  /\ EmptyReadsFor(0) = 0
  /\ \A n \in Nat : EmptyReadsFor(n) \in Nat /\ EmptyReadsFor(n + 1) = EmptyReadsFor(n) + EmptyReads
BY UsbDongleAssumption DEF EmptyReadsFor

\* More pieces allow more reads.
LEMMA EmptyReadsMonotone ==
  ASSUME NEW n \in Nat, NEW m \in Nat, m <= n
  PROVE  EmptyReadsFor(m) <= EmptyReadsFor(n)
<1>1. n - m \in Nat /\ EmptyReads \in Nat
  BY UsbDongleAssumption
<1>2. EmptyReadsFor(n) = EmptyReadsFor(m) + EmptyReadsFor(n - m)
  BY <1>1 DEF EmptyReadsFor
<1>3. EmptyReadsFor(m) \in Nat /\ EmptyReadsFor(n - m) \in Nat /\ EmptyReadsFor(n) \in Nat
  BY <1>1, EmptyReadsAddUp
<1> QED
  BY <1>2, <1>3

\* What a call that waits has before it: the line has a piece to come at least.
LEMMA PiecesToCome ==
  ASSUME TypeOK
  PROVE  /\ EmptyReads \in Nat /\ empty \in Nat /\ empty < EmptyReads
         /\ LinePieces - pieces \in 1..LinePieces
         /\ EmptyReadsFor(LinePieces - pieces) >= EmptyReads
         /\ EmptyReadsFor(LinePieces - pieces) \in 0..EmptyReadsFor(LinePieces)
<1> DEFINE more == LinePieces - pieces
<1>1. EmptyReads \in Nat /\ empty \in Nat /\ empty < EmptyReads /\ LinePieces \in Nat
  BY UsbDongleAssumption DEF TypeOK
<1>2. more \in 1..LinePieces
  BY <1>1 DEF TypeOK
<1> HIDE DEF more
<1>3. more - 1 \in Nat /\ more \in Nat /\ (more - 1) + 1 = more
  BY <1>1, <1>2
<1>4. EmptyReadsFor(more) >= EmptyReads /\ EmptyReadsFor(more) \in Nat
  <2>1. EmptyReadsFor(more - 1) \in Nat /\ EmptyReadsFor(more) = EmptyReadsFor(more - 1) + EmptyReads
    BY <1>3, EmptyReadsAddUp
  <2> QED
    BY <1>1, <2>1
<1>5. EmptyReadsFor(more) <= EmptyReadsFor(LinePieces)
  BY <1>1, <1>2, EmptyReadsMonotone
<1>6. EmptyReadsFor(LinePieces) \in Nat
  BY <1>1, EmptyReadsAddUp
<1> QED
  BY <1>1, <1>2, <1>4, <1>5, <1>6 DEF more

\* What is left, from what there is to read.
LeftValues ==
  /\ EmptyReads \in Nat /\ empty \in Nat /\ empty < EmptyReads
  /\ call = "idle" => ReadsLeft = 0
  /\ call # "idle" /\ (lines # <<>> \/ port # "open") => ReadsLeft = 1
  /\ call # "idle" /\ lines = <<>> /\ port = "open"
       => ReadsLeft = EmptyReadsFor(LinePieces - pieces) - empty
  /\ EmptyReadsFor(LinePieces) \in Nat
  /\ ReadsLeft \in 0..EmptyReadsFor(LinePieces)
  /\ call # "idle" => ReadsLeft >= 1

LEMMA Leftovers ==
  ASSUME TypeOK
  PROVE  LeftValues
<1> DEFINE allowed == EmptyReadsFor(LinePieces - pieces)
           most == EmptyReadsFor(LinePieces)
<1>1. /\ EmptyReads \in Nat /\ empty \in Nat /\ empty < EmptyReads
      /\ allowed >= EmptyReads /\ allowed \in 0..most
  BY PiecesToCome
<1>2. most \in Nat
  BY UsbDongleAssumption, EmptyReadsAddUp
<1>3. /\ call = "idle" => ReadsLeft = 0
      /\ call # "idle" /\ (lines # <<>> \/ port # "open") => ReadsLeft = 1
      /\ call # "idle" /\ lines = <<>> /\ port = "open" => ReadsLeft = allowed - empty
  BY DEF ReadsLeft
<1> HIDE DEF allowed, most
<1>4. ReadsLeft \in 0..most /\ (call # "idle" => ReadsLeft >= 1)
  BY <1>1, <1>2, <1>3
<1> QED
  BY <1>1, <1>2, <1>3, <1>4 DEF LeftValues, allowed, most

LEMMA LeftoversNext == TypeOK' => LeftValues'
<1>1. TypeOK => LeftValues
  BY Leftovers
<1> QED
  BY <1>1, PTL

\* A read of the port, or the line that it takes from what was read before.
LEMMA ReadCounts ==
  ASSUME TypeOK, TypeOK', HostStep
  PROVE  ReadsLeft' < ReadsLeft
<1>1. LeftValues /\ LeftValues'
  BY Leftovers, LeftoversNext
<1>2. call # "idle"
  BY DEF HostStep, ReadLine, EmptyRead, ReadFails
<1>3. CASE call' = "idle"
  BY <1>1, <1>2, <1>3 DEF LeftValues
<1>4. CASE call' # "idle"
  <2> DEFINE allowed == EmptyReadsFor(LinePieces - pieces)
  <2>1. /\ lines = <<>> /\ port = "open" /\ empty' = empty + 1
        /\ UNCHANGED <<call, pieces, port, lines>>
    BY <1>4 DEF HostStep, ReadLine, EmptyRead, ReadFails, Return
  <2>2. allowed' = allowed
    BY <2>1 DEF EmptyReadsFor
  <2>3. ReadsLeft = allowed - empty /\ ReadsLeft' = allowed - (empty + 1)
    BY <1>1, <1>2, <2>1, <2>2 DEF LeftValues
  <2>4. allowed \in Nat
    BY PiecesToCome
  <2> HIDE DEF allowed
  <2> QED
    BY <1>1, <2>3, <2>4 DEF LeftValues
<1> QED
  BY <1>3, <1>4

\* What happens to a call while it waits.
LEMMA WaitCounts ==
  ASSUME TypeOK, TypeOK', call # "idle", Killed \/ SendsPiece \/ SendsLine \/ Unplugged
  PROVE  ReadsLeft' <= ReadsLeft
<1>1. LeftValues /\ LeftValues'
  BY Leftovers, LeftoversNext
<1>2. CASE Killed
  BY <1>1, <1>2 DEF Killed, Return, LeftValues
<1>3. CASE SendsPiece
  <2>1. port = "open" /\ pieces' = pieces + 1 /\ empty' = 0 /\ UNCHANGED <<call, lines, port>>
    BY <1>3 DEF SendsPiece
  <2>2. CASE lines = <<>>
    <3> DEFINE allowed == EmptyReadsFor(LinePieces - pieces)
               left == EmptyReadsFor(LinePieces - (pieces + 1))
    <3>1. allowed' = left
      BY <2>1 DEF EmptyReadsFor
    <3>2. ReadsLeft = allowed - empty /\ ReadsLeft' = left - 0
      BY <1>1, <2>1, <2>2, <3>1 DEF LeftValues
    <3>3. LinePieces - (pieces + 1) \in Nat /\ (LinePieces - (pieces + 1)) + 1 = LinePieces - pieces
      BY PiecesToCome, UsbDongleAssumption DEF TypeOK
    <3>4. left \in Nat /\ allowed = left + EmptyReads
      BY <3>3, EmptyReadsAddUp
    <3> HIDE DEF allowed, left
    <3> QED
      BY <1>1, <3>2, <3>4 DEF LeftValues
  <2>3. CASE lines # <<>>
    BY <1>1, <2>1, <2>3 DEF LeftValues
  <2> QED
    BY <2>2, <2>3
<1>4. CASE SendsLine
  <2>1. /\ call' = call /\ port' = port /\ replies # <<>> /\ lines' = Append(lines, Head(replies))
        /\ lines \in Seq(Line) /\ replies \in Seq(Line)
    BY <1>4 DEF SendsLine, TypeOK
  <2>2. Len(lines') = Len(lines) + 1 /\ Len(lines) \in Nat
    BY <2>1
  <2>3. lines' # <<>>
    BY <2>2, EmptySeq
  <2> QED
    BY <1>1, <2>1, <2>3 DEF LeftValues
<1>5. CASE Unplugged
  <2>1. call' = call /\ port' = "hungUp"
    BY <1>5 DEF Unplugged, TypeOK
  <2> QED
    BY <1>1, <2>1 DEF LeftValues
<1> QED
  BY <1>2, <1>3, <1>4, <1>5

LEMMA StepCounts ==
  ASSUME TypeOK, TypeOK', Next
  PROVE  /\ ReadsLeft' \in 0..(IF call = "idle" THEN EmptyReadsFor(LinePieces) ELSE ReadsLeft)
         /\ HostStep => ReadsLeft' < ReadsLeft
<1>1. LeftValues /\ LeftValues'
  BY Leftovers, LeftoversNext
<1>2. ASSUME call # "idle"
      PROVE  ReadsLeft' <= ReadsLeft
  <2>1. HostStep \/ Killed \/ SendsPiece \/ SendsLine \/ Unplugged
    BY <1>2 DEF Next, NotOpen, Write, WriteFails, Open, Deinit, TypeOK
  <2>2. CASE HostStep
    BY <1>1, <2>2, ReadCounts DEF LeftValues
  <2> QED
    BY <1>2, <2>1, <2>2, WaitCounts
<1>3. CASE call = "idle"
  BY <1>1, <1>3, ReadCounts DEF LeftValues
<1>4. CASE call # "idle"
  <2>1. ReadsLeft' \in 0..ReadsLeft
    BY <1>1, <1>2, <1>4 DEF LeftValues
  <2> QED
    BY <1>4, <2>1, ReadCounts
<1> QED
  BY <1>3, <1>4

\* Transfer and CSNHigh return after that many reads when a line has at most LinePieces
\* pieces, whenever they come: a dongle that is silent, or stops in the middle of a line,
\* holds the driver for so many time limits of the port and no longer.  One that never
\* ends a line holds it forever, since bufio starts to count again at each piece.
THEOREM BoundedCalls == Spec => CallIsBounded
<1>1. ASSUME TypeOK, TypeOK', [Next]_vars
      PROVE  [ /\ ReadsLeft' \in 0..(IF call = "idle" THEN EmptyReadsFor(LinePieces) ELSE ReadsLeft)
               /\ HostStep => ReadsLeft' < ReadsLeft ]_vars
  BY <1>1, StepCounts
<1> QED
  BY <1>1, Typing, PTL DEF Spec, CallIsBounded
=============================================================================
