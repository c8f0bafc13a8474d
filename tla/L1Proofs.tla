------------------------------ MODULE L1Proofs ------------------------------
(***************************************************************************)
(* Proofs about the L1 layer, for every number of polls and every set of   *)
(* requests: its types, its discipline on the chip-select line, and that   *)
(* it implements L1Exchange.  What l1Write and l1Read promise rests on     *)
(* what the buffer holds at each point of the loop (BufferInv).  Then the  *)
(* simulated transport, under L1 and under a test that does as it likes,   *)
(* for every queue.  A call makes a bounded number of steps on either      *)
(* transport.                                                              *)
(***************************************************************************)
EXTENDS SimL1, FiniteSetTheorems, SequenceTheorems, TLAPS

\* What the type of the state does not say: where the loop starts again the
\* chip has acted on nothing, the frame that is clocked out is the caller's,
\* and after a transfer d.l2buf tells whether the chip acted on it.
BufferInv ==
  /\ pc # "idle" /\ ~Reading => saved = frame
  /\ pc \in {"loop", "csnLow", "transfer", "delay"} => taken = <<>>
  /\ pc \in {"csnLow", "transfer"} => l2buf = frame
  /\ pc \in {"csnHigh", "inspect"} =>
       /\ l2buf \in ChipBytes
       /\ taken = IF ActsOn(l2buf) THEN <<frame>> ELSE <<>>
  /\ pc = "idle" => taken \in {<<>>, <<frame>>}

\* Where the chip-select line is at each point of the loop.
LineInv ==
  ~unreleased =>
    /\ pc \in {"idle", "loop", "csnLow", "inspect", "delay"} => csn = "high"
    /\ pc = "transfer" => csn = "low" /\ clocked = 0
    /\ clocked < 2

\* A transfer puts into the history what the chip acted on.
LEMMA TakenOnce ==
  ASSUME BufferInv, pc = "transfer"
  PROVE  Append(taken, l2buf) = <<frame>>
BY DEF BufferInv

\* Histories of no and of one frame.
LEMMA HistoryType == <<>> \in Seq(Frames) /\ \A f \in Frames : <<f>> \in Seq(Frames)
OBVIOUS

\* The frames a call can have.
LEMMA FrameType == Requests \subseteq Frames /\ GetResponse \in Frames
BY DEF Frames

\* The type of the state is kept.
LEMMA TypeStep ==
  ASSUME TypeOK, BufferInv, [Next]_vars
  PROVE  TypeOK'
<1>1. ASSUME NEW r \in Requests, WriteCall(r)
      PROVE  TypeOK'
  BY <1>1, FrameType, HistoryType, L1Assumption DEF WriteCall, TypeOK
<1>2. CASE ReadCall
  BY <1>2, FrameType, HistoryType, L1Assumption DEF ReadCall, TypeOK
<1>3. CASE Refill
  BY <1>3, L1Assumption DEF Refill, Reading, TypeOK, Frames
<1>4. CASE Exhausted \/ CSNLowFails \/ DelayFails
  BY <1>4 DEF Exhausted, CSNLowFails, DelayFails, Return, TypeOK
<1>5. CASE CSNLow \/ Delay
  BY <1>5 DEF CSNLow, Delay, TypeOK
<1>6. CASE CSNHigh \/ CSNHighFails
  BY <1>6 DEF CSNHigh, CSNHighFails, Release, Return, TypeOK
<1>7. CASE Inspect
  BY <1>7 DEF Inspect, Return, TypeOK
<1>8. CASE Transfer
  <2>1. Append(taken, l2buf) \in Seq(Frames)
    BY <1>8, TakenOnce, HistoryType DEF Transfer, TypeOK
  <2>2. taken' \in Seq(Frames) /\ l2buf' \in ChipBytes
    BY <1>8, <2>1 DEF Transfer, TypeOK
  <2>3. QED
    BY <1>8, <2>2 DEF Transfer, Clock, TypeOK
<1>9. CASE TransferFails
  <2>1. Append(taken, l2buf) \in Seq(Frames)
    BY <1>9, TakenOnce, HistoryType DEF TransferFails, TypeOK
  <2>2. taken' \in Seq(Frames) /\ clocked' \in 0..2
    BY <1>9, <2>1 DEF TransferFails, Clock, TypeOK
  <2>3. csn' \in {"low", "high"} /\ unreleased' \in BOOLEAN
    BY <1>9 DEF TransferFails, Release, TypeOK
  <2>4. QED
    BY <1>9, <2>2, <2>3 DEF TransferFails, Return, TypeOK
<1>10. CASE UNCHANGED vars
  BY <1>10 DEF vars, TypeOK
<1>11. QED
  BY <1>1, <1>2, <1>3, <1>4, <1>5, <1>6, <1>7, <1>8, <1>9, <1>10 DEF Next, Step

\* What the buffer and the history say at each point is kept.
LEMMA BufferStep ==
  ASSUME TypeOK, BufferInv, [Next]_vars
  PROVE  BufferInv'
<1>1. ASSUME NEW r \in Requests, WriteCall(r)
      PROVE  BufferInv'
  BY <1>1 DEF WriteCall, BufferInv
<1>2. CASE ReadCall
  BY <1>2 DEF ReadCall, Reading, BufferInv
<1>3. CASE Refill
  BY <1>3 DEF Refill, Reading, BufferInv
<1>4. CASE Exhausted \/ CSNLowFails \/ DelayFails
  BY <1>4 DEF Exhausted, CSNLowFails, DelayFails, Return, BufferInv
<1>5. CASE CSNLow \/ Delay
  BY <1>5 DEF CSNLow, Delay, Reading, BufferInv
<1>6. CASE CSNHigh \/ CSNHighFails
  BY <1>6 DEF CSNHigh, CSNHighFails, Return, BufferInv, Reading, ActsOn
<1>7. CASE Inspect
  BY <1>7 DEF Inspect, Return, BufferInv, Reading, ActsOn
<1>8. CASE Transfer
  BY <1>8, TakenOnce DEF Transfer, BufferInv, Reading, ActsOn
<1>9. CASE TransferFails
  BY <1>9, TakenOnce DEF TransferFails, Return, BufferInv
<1>10. CASE UNCHANGED vars
  BY <1>10 DEF vars, BufferInv, Reading, ActsOn
<1>11. QED
  BY <1>1, <1>2, <1>3, <1>4, <1>5, <1>6, <1>7, <1>8, <1>9, <1>10 DEF Next, Step

\* Where the line is at each point is kept.
LEMMA LineStep ==
  ASSUME TypeOK, LineInv, [Next]_vars
  PROVE  LineInv'
<1>1. ASSUME NEW r \in Requests, WriteCall(r)
      PROVE  LineInv'
  BY <1>1 DEF WriteCall, LineInv
<1>2. CASE ReadCall \/ Refill \/ Delay
  BY <1>2 DEF ReadCall, Refill, Delay, LineInv
<1>3. CASE Exhausted \/ CSNLowFails \/ DelayFails
  BY <1>3 DEF Exhausted, CSNLowFails, DelayFails, Return, LineInv
<1>4. CASE CSNLow
  BY <1>4 DEF CSNLow, LineInv
<1>5. CASE CSNHigh \/ CSNHighFails
  BY <1>5 DEF CSNHigh, CSNHighFails, Release, Return, LineInv
<1>6. CASE Inspect
  BY <1>6 DEF Inspect, Return, LineInv
<1>7. CASE Transfer
  BY <1>7 DEF Transfer, Clock, LineInv
<1>8. CASE TransferFails
  BY <1>8 DEF TransferFails, Clock, Release, Return, LineInv
<1>9. CASE UNCHANGED vars
  BY <1>9 DEF vars, LineInv
<1>10. QED
  BY <1>1, <1>2, <1>3, <1>4, <1>5, <1>6, <1>7, <1>8, <1>9 DEF Next, Step

\* The invariants hold together.
LEMMA Invariants == Spec => [](TypeOK /\ BufferInv /\ LineInv)
<1>1. Init => TypeOK /\ BufferInv /\ LineInv
  <2>1. Init => TypeOK
    <3>1. 0 \in 0..l1MaxRetries /\ 0 \in 0..2
      BY L1Assumption
    <3>2. GetResponse \in Frames /\ <<>> \in Seq(Frames)
      BY FrameType, HistoryType
    <3>3. QED
      BY <3>1, <3>2 DEF Init, TypeOK
  <2>2. Init => BufferInv /\ LineInv
    BY DEF Init, BufferInv, LineInv
  <2>3. QED
    BY <2>1, <2>2
<1>2. TypeOK /\ BufferInv /\ LineInv /\ [Next]_vars => (TypeOK /\ BufferInv /\ LineInv)'
  BY TypeStep, BufferStep, LineStep
<1>3. QED
  BY <1>1, <1>2, PTL DEF Spec

\* The loops make at most l1MaxRetries iterations, and the buffer holds a frame
\* or the chip's answer.
THEOREM Typing == Spec => []TypeOK
BY Invariants, PTL

\* In one call the chip acts on the caller's frame only, and at most once,
\* however often it is clocked out.
THEOREM CallersFrameOnce == Spec => []ActsOnCallersFrameOnce
<1>1. TypeOK /\ BufferInv => ActsOnCallersFrameOnce
  BY DEF TypeOK, BufferInv, ActsOnCallersFrameOnce
<1>2. QED
  BY <1>1, Invariants, PTL

\* Each transfer has a selection of its own and every return path releases the
\* chip, unless a CSNHigh failed.
THEOREM Discipline == Spec => []SelectDiscipline
<1>1. LineInv => SelectDiscipline
  BY DEF LineInv, SelectDiscipline
<1>2. QED
  BY <1>1, Invariants, PTL

\* A call that returned nil without the chip having taken a frame is a write
\* that used up its polls.
LEMMA SilentStep ==
  ASSUME BufferInv, SilentWriteOnlyWhenExhausted, [Next]_vars
  PROVE  SilentWriteOnlyWhenExhausted'
<1> USE DEF SilentWriteOnlyWhenExhausted
<1>1. CASE ReadCall \/ \E r \in Requests : WriteCall(r)
  BY <1>1 DEF ReadCall, WriteCall
<1>2. CASE Refill \/ CSNLow \/ Transfer \/ CSNHigh \/ Delay
  BY <1>2 DEF Refill, CSNLow, Transfer, CSNHigh, Delay
<1>3. CASE CSNLowFails \/ TransferFails \/ CSNHighFails \/ DelayFails
  BY <1>3 DEF CSNLowFails, TransferFails, CSNHighFails, DelayFails, Return
<1>4. CASE Exhausted
  BY <1>4 DEF Exhausted, Return, Reading
<1>5. CASE Inspect
  BY <1>5 DEF Inspect, Return, BufferInv
<1>6. CASE UNCHANGED vars
  BY <1>6 DEF vars, Reading
<1>7. QED
  BY <1>1, <1>2, <1>3, <1>4, <1>5, <1>6 DEF Next, Step

\* l1Write returns nil for a frame that the chip did not take only when the
\* chip was not READY in any of its polls.
THEOREM SilentWrite == Spec => []SilentWriteOnlyWhenExhausted
<1>1. Init => SilentWriteOnlyWhenExhausted
  BY DEF Init, SilentWriteOnlyWhenExhausted
<1>2. QED
  BY <1>1, SilentStep, Invariants, PTL DEF Spec

\* L1 with all its polls, retries and failures implements the exchange that
\* L2 relies upon.
THEOREM Refinement == Spec => ImplementsExchange
<1>1. Init => Exchange!Init
  BY DEF Init, Exchange!Init
<1>2. TypeOK /\ BufferInv /\ [Next]_vars => [Exchange!Next]_(Exchange!vars)
  <2> SUFFICES ASSUME TypeOK, BufferInv, [Next]_vars
               PROVE  [Exchange!Next]_(Exchange!vars)
    OBVIOUS
  <2> USE DEF Exchange!vars
  <2>1. ASSUME NEW r \in Requests, WriteCall(r)
        PROVE  Exchange!Next
    BY <2>1 DEF WriteCall, Exchange!Next, Exchange!Call
  <2>2. CASE ReadCall
    BY <2>2 DEF ReadCall, Exchange!Next, Exchange!Call
  <2>3. CASE Refill \/ CSNLow \/ CSNHigh \/ Delay
    BY <2>3 DEF Refill, CSNLow, CSNHigh, Delay
  <2>4. CASE Exhausted
    BY <2>4 DEF Exhausted, Return, Reading, Exchange!Next, Exchange!Succeed, Exchange!Fail
  <2>5. CASE CSNLowFails \/ CSNHighFails \/ DelayFails
    BY <2>5 DEF CSNLowFails, CSNHighFails, DelayFails, Return, Exchange!Next, Exchange!Fail
  <2>6. CASE Transfer
    BY <2>6, TakenOnce DEF Transfer, BufferInv, Exchange!Next, Exchange!Exchange
  <2>7. CASE TransferFails
    BY <2>7, TakenOnce DEF TransferFails, Return, Reading, Exchange!Next, Exchange!Fail
  <2>8. CASE Inspect
    <3>1. l2buf.alarm /\ Return("ErrL1SPI") => Exchange!Fail
      BY <2>8 DEF Inspect, Return, Exchange!Fail
    <3>2. ActsOn(l2buf) /\ Return("nil") => Exchange!Succeed
      BY <2>8 DEF Inspect, Return, BufferInv, Exchange!Succeed
    <3>3. pc' = "delay" /\ UNCHANGED ret => UNCHANGED Exchange!vars
      BY <2>8 DEF Inspect
    <3>4. QED
      BY <2>8, <3>1, <3>2, <3>3 DEF Inspect, Exchange!Next
  <2>9. CASE UNCHANGED vars
    BY <2>9 DEF vars
  <2>10. QED
    BY <2>1, <2>2, <2>3, <2>4, <2>5, <2>6, <2>7, <2>8, <2>9 DEF Next, Step
<1>3. QED
  BY <1>1, <1>2, Invariants, PTL DEF Spec, ImplementsExchange, Exchange!Spec

-----------------------------------------------------------------------------
\* How long a call takes.

\* Steps from a place of the loop to its head, or out of it.
Place ==
  [idle |-> 0, loop |-> 1, delay |-> 2, inspect |-> 3, csnHigh |-> 4, transfer |-> 5, csnLow |-> 6]

\* What is left of a call: six steps for each poll to come, and those of this one.
StepsLeft == IF pc = "idle" THEN 0 ELSE 6 * (l1MaxRetries - tries) + Place[pc]

\* A call of l1Write or l1Read has at most six steps for each of its polls and one
\* more, and each step it takes uses one up.
CallIsBounded ==
  [][IF pc = "idle" THEN StepsLeft' \in 0..(6 * l1MaxRetries + 1)
     ELSE StepsLeft' \in 0..(StepsLeft - 1)]_vars

\* What is left is a number, and not zero in a call.
LEMMA LeftType ==
  ASSUME TypeOK
  PROVE  /\ StepsLeft \in Nat
         /\ pc # "idle" => StepsLeft > 0 /\ StepsLeft = 6 * (l1MaxRetries - tries) + Place[pc]
<1>1. l1MaxRetries \in Nat /\ tries \in Nat /\ tries <= l1MaxRetries
  BY L1Assumption DEF TypeOK
<1>2. pc # "idle" => Place[pc] \in 1..6
  BY DEF TypeOK, Place
<1> QED
  BY <1>1, <1>2 DEF StepsLeft

LEMMA LeftTypeNext == TypeOK' => StepsLeft' \in Nat
<1>1. TypeOK' => l1MaxRetries \in Nat /\ tries' \in Nat /\ tries' <= l1MaxRetries
  BY L1Assumption DEF TypeOK
<1>2. TypeOK' /\ pc' # "idle" => Place[pc'] \in 1..6
  BY DEF TypeOK, Place
<1> QED
  BY <1>1, <1>2 DEF StepsLeft

\* Only the calls need an idle L1.
LEMMA RunningStep ==
  ASSUME pc # "idle", [Next]_vars, vars' # vars
  PROVE  Step
BY DEF Next, WriteCall, ReadCall

\* A poll takes one from the polls to come, which its steps make up for.
LEMMA LeftStep ==
  ASSUME TypeOK, Step
  PROVE  pc # "idle" /\ StepsLeft' < StepsLeft
<1> DEFINE polls == l1MaxRetries - tries
<1>1. l1MaxRetries \in Nat /\ tries \in Nat /\ tries <= l1MaxRetries /\ polls \in Nat
  BY L1Assumption DEF TypeOK
<1>2. pc # "idle"
  BY DEF Step, Refill, Exhausted, CSNLow, CSNLowFails, Transfer, TransferFails, CSNHigh,
         CSNHighFails, Inspect, Delay, DelayFails
<1>3. StepsLeft \in Nat /\ StepsLeft > 0 /\ StepsLeft = 6 * polls + Place[pc]
  BY <1>2, LeftType
<1>4. CASE pc' = "idle"
  BY <1>3, <1>4 DEF StepsLeft
<1>5. CASE Refill
  <2>1. pc = "loop" /\ pc' = "csnLow" /\ tries' = tries + 1
    BY <1>5 DEF Refill
  <2>2. l1MaxRetries - tries' = polls - 1
    BY <1>1, <2>1
  <2>3. StepsLeft' = 6 * (polls - 1) + 6 /\ StepsLeft = 6 * polls + 1
    BY <1>3, <2>1, <2>2 DEF StepsLeft, Place
  <2> QED
    BY <1>1, <1>2, <2>3
<1>6. ASSUME UNCHANGED tries, pc' # "idle", Place[pc'] \in Nat, Place[pc] \in Nat, Place[pc'] < Place[pc]
      PROVE  StepsLeft' < StepsLeft
  BY <1>1, <1>3, <1>6 DEF StepsLeft
<1>7. CASE CSNLow \/ Transfer \/ CSNHigh \/ Delay
  <2>1. <<pc, pc'>> \in {<<"csnLow", "transfer">>, <<"transfer", "csnHigh">>,
                         <<"csnHigh", "inspect">>, <<"delay", "loop">>}
    BY <1>7 DEF CSNLow, Transfer, CSNHigh, Delay
  <2>2. UNCHANGED tries
    BY <1>7 DEF CSNLow, Transfer, CSNHigh, Delay
  <2>3. pc' # "idle" /\ Place[pc'] \in Nat /\ Place[pc] \in Nat /\ Place[pc'] < Place[pc]
    BY <2>1 DEF Place
  <2> QED
    BY <1>2, <1>6, <2>2, <2>3
<1>8. CASE Inspect
  BY <1>4, <1>6, <1>8, <1>2 DEF Inspect, Return, Place
<1>9. CASE Exhausted \/ CSNLowFails \/ TransferFails \/ CSNHighFails \/ DelayFails
  BY <1>4, <1>2, <1>9 DEF Exhausted, CSNLowFails, TransferFails, CSNHighFails, DelayFails, Return
<1> QED
  BY <1>2, <1>5, <1>7, <1>8, <1>9 DEF Step

\* No call of l1Write or l1Read takes more steps than that, whatever the chip and the
\* transport answer.
THEOREM BoundedCalls == Spec => CallIsBounded
<1>1. ASSUME TypeOK, TypeOK', [Next]_vars
      PROVE  [IF pc = "idle" THEN StepsLeft' \in 0..(6 * l1MaxRetries + 1)
              ELSE StepsLeft' \in 0..(StepsLeft - 1)]_vars
  <2>1. SUFFICES ASSUME vars' # vars
                 PROVE  IF pc = "idle" THEN StepsLeft' \in 0..(6 * l1MaxRetries + 1)
                        ELSE StepsLeft' \in 0..(StepsLeft - 1)
    OBVIOUS
  <2>2. StepsLeft \in Nat /\ StepsLeft' \in Nat
    BY <1>1, LeftType, LeftTypeNext
  <2>3. CASE pc # "idle"
    <3>1. Step
      BY <1>1, <2>1, <2>3, RunningStep
    <3>2. StepsLeft' < StepsLeft
      BY <1>1, <3>1, LeftStep
    <3> QED
      BY <2>2, <2>3, <3>2
  <2>4. CASE pc = "idle"
    <3>1. ~Step
      BY <1>1, <2>4, LeftStep
    <3>2. pc' = "loop" /\ tries' = 0
      BY <1>1, <2>1, <3>1 DEF Next, WriteCall, ReadCall
    <3>3. StepsLeft' = 6 * (l1MaxRetries - 0) + 1
      BY <3>2 DEF StepsLeft, Place
    <3> QED
      BY <2>4, <3>3, L1Assumption
  <2> QED
    BY <2>3, <2>4
<1> QED
  BY <1>1, Typing, PTL DEF Spec, CallIsBounded

-----------------------------------------------------------------------------
\* The simulator under L1.

\* What L1 and its callers do on the simulator, they do in L1.
LEMMA SystemStepIsL1 ==
  ASSUME [SystemNext]_systemVars
  PROVE  [Next]_vars
<1>1. CASE CallL1
  BY <1>1 DEF CallL1, Next
<1>2. CASE OnHardware
  BY <1>2 DEF OnHardware, Next
<1>3. CASE Compute
  BY <1>3 DEF Compute, Next, Step
<1>4. CASE Selects
  BY <1>4 DEF Selects, Calls, Next, Step
<1>5. CASE Transfers
  BY <1>5 DEF Transfers, Calls, Next, Step
<1>6. CASE Releases
  BY <1>6 DEF Releases, Calls, Next, Step
<1>7. CASE ReleasesAfterFailure
  BY <1>7 DEF ReleasesAfterFailure, Next, Step
<1>8. CASE UNCHANGED vars
  BY <1>8
<1> QED
  BY <1>1, <1>2, <1>3, <1>4, <1>5, <1>6, <1>7, <1>8
     DEF SystemNext, OnSimulator, Enqueues, systemVars

\* Whatever transport is under it, L1 behaves as L1 does: all that is proved of
\* Spec holds on the simulator too.
THEOREM OnEitherTransport == SystemSpec => Spec
<1>1. SystemInit => Init
  BY DEF SystemInit
<1> QED
  BY <1>1, SystemStepIsL1, PTL DEF SystemSpec, Spec

\* What the simulator sees: a call by L1 or by the test, or nothing.
SimStep == S!Next \/ S!Transfer(2)

LEMMA SystemStepIsSim ==
  ASSUME [SystemNext]_systemVars
  PROVE  SimStep \/ UNCHANGED simVars
<1>1. CASE CallL1 \/ OnHardware \/ Compute
  BY <1>1 DEF CallL1, OnHardware, Compute
<1>2. CASE Selects \/ Releases \/ ReleasesAfterFailure
  BY <1>2 DEF Selects, Releases, ReleasesAfterFailure, Calls, SimStep, S!Next
<1>3. CASE Transfers
  BY <1>3 DEF Transfers, Calls, SimStep
<1>4. CASE Enqueues \/ S!Next
  BY <1>4 DEF Enqueues, SimStep, S!Next
<1>5. CASE UNCHANGED systemVars
  BY <1>5 DEF systemVars
<1> QED
  BY <1>1, <1>2, <1>3, <1>4, <1>5 DEF SystemNext, OnSimulator

\* The calls of the simulator that succeed, one by one.
Opens ==
  /\ ~inProgress /\ inProgress' = TRUE
  /\ phase' = IF mode = "stateful" THEN 0 ELSE phase
  /\ past' = past \union now /\ now' = {} /\ parts' = <<>>
  /\ out' = [err |-> "", bytes |-> <<0, 0>>]
  /\ UNCHANGED <<mode, queue, hasResponse, enqueued>>

Closes ==
  /\ inProgress /\ inProgress' = FALSE
  /\ queue' = IF queue = <<>> THEN <<>> ELSE Tail(queue)
  /\ out' = [err |-> "", bytes |-> <<0, 0>>]
  /\ UNCHANGED <<mode, hasResponse, phase, enqueued, past, now, parts>>

Serves ==
  /\ inProgress /\ mode = "queued" /\ queue # <<>>
  /\ out' = [err |-> "", bytes |-> Head(queue).bytes]
  /\ now' = now \union {Head(queue).no}
  /\ UNCHANGED <<mode, queue, inProgress, hasResponse, phase, enqueued, past, parts>>

Absorbs == inProgress /\ mode = "stateful" /\ S!Absorb

Gives ==
  /\ inProgress /\ mode = "stateful" /\ hasResponse
  /\ \/ phase = 0 /\ S!Part("poll", <<S!READY, 0>>)
     \/ phase = 1 /\ S!Part("header", <<S!RESULT_OK, 0>>)
     \/ phase = 2 /\ \E crc \in {<<0, 0>>, <<1, 255>>} : S!Part("data", crc)

Errors == {"protocol", "empty", "short", "phase"}

\* A call of the simulator succeeds or leaves all but its result as it was.
LEMMA SimCases ==
  ASSUME SimStep
  PROVE  \/ \E bytes \in S!Responses : S!EnqueueResponse(bytes)
         \/ \E e \in Errors : S!Fails(e)
         \/ Opens \/ Closes \/ Serves \/ Absorbs \/ Gives
<1>1. CASE S!Enqueue
  BY <1>1 DEF S!Enqueue
<1>2. CASE S!CSNLow
  BY <1>2 DEF S!CSNLow, Opens, Errors
<1>3. CASE S!CSNHigh
  BY <1>3 DEF S!CSNHigh, Closes, Errors
<1>4. ASSUME NEW n, S!Transfer(n)
      PROVE  (\E e \in Errors : S!Fails(e)) \/ Serves \/ Absorbs \/ Gives
  <2>1. CASE ~inProgress /\ S!Fails("protocol")
    BY <2>1 DEF Errors
  <2>2. CASE inProgress /\ mode = "queued" /\ S!TransferQueued
    BY <2>2 DEF S!TransferQueued, Errors, Serves
  <2>3. CASE inProgress /\ mode = "stateful" /\ S!transferStateful(n)
    BY <2>3 DEF S!transferStateful, Errors, Absorbs, Gives
  <2> QED
    BY <1>4, <2>1, <2>2, <2>3 DEF S!Transfer
<1> QED
  BY <1>1, <1>2, <1>3, <1>4 DEF SimStep, S!Next

-----------------------------------------------------------------------------

\* A part that is given is the next one.
LEMMA GivesNext ==
  ASSUME Gives
  PROVE  /\ phase \in {0, 1, 2} /\ phase' = phase + 1
         /\ \E name \in {"poll", "header", "data"} : parts' = Append(parts, name)
         /\ hasResponse' \in BOOLEAN
         /\ \E bytes \in {<<1, 0>>, <<2, 0>>, <<0, 0>>, <<1, 255>>} : out' = [err |-> "", bytes |-> bytes]
         /\ UNCHANGED <<mode, queue, inProgress, enqueued, past, now>>
BY ZenonT(30) DEF Gives, S!Part, S!READY, S!RESULT_OK

\* The types of the simulator, its records and sequences under names.
Out == [err : {"", "protocol", "empty", "short", "phase"}, bytes : S!Bytes]
Frame == [no : 1..MaxFrames, bytes : S!Bytes]
PartNames == {"poll", "header", "data"}

SimTypes ==
  /\ mode \in Modes
  /\ queue \in Seq(Frame)
  /\ inProgress \in BOOLEAN
  /\ hasResponse \in BOOLEAN
  /\ phase \in 0..3
  /\ out \in Out
  /\ enqueued \in 0..MaxFrames
  /\ past \subseteq 1..MaxFrames
  /\ now \subseteq 1..MaxFrames
  /\ parts \in Seq(PartNames)

LEMMA SimTypesAreTypes == (SimTypes <=> S!TypeOK) /\ (SimTypes' <=> S!TypeOK')
BY DEF SimTypes, S!TypeOK, Out, Frame, PartNames

LEMMA OutType ==
  ASSUME NEW e \in Errors \union {""}, NEW bytes \in S!Bytes
  PROVE  [err |-> e, bytes |-> bytes] \in Out
BY DEF Out, Errors

LEMMA BytesType ==
  /\ <<0, 0>> \in S!Bytes /\ <<1, 0>> \in S!Bytes /\ <<2, 0>> \in S!Bytes /\ <<1, 255>> \in S!Bytes
  /\ S!Responses \subseteq S!Bytes
BY DEF S!Bytes, S!Responses, S!READY, S!RESULT_OK

\* The simulator keeps its types, whoever calls it.
LEMMA SimTypeStep ==
  ASSUME SimTypes, SimStep \/ UNCHANGED simVars
  PROVE  SimTypes'
<1>t. /\ mode \in Modes /\ queue \in Seq(Frame) /\ inProgress \in BOOLEAN /\ hasResponse \in BOOLEAN
      /\ phase \in 0..3 /\ out \in Out /\ parts \in Seq(PartNames)
  BY DEF SimTypes
<1>n. enqueued \in 0..MaxFrames /\ past \subseteq 1..MaxFrames /\ now \subseteq 1..MaxFrames /\ MaxFrames \in Nat
  BY SimL1Assumption DEF SimTypes
<1>1. CASE UNCHANGED simVars
  BY <1>1 DEF simVars, SimTypes
<1>2. ASSUME NEW bytes \in S!Responses, S!EnqueueResponse(bytes)
      PROVE  SimTypes'
  <2> DEFINE f == [no |-> enqueued', bytes |-> bytes]
  <2>1. enqueued' = enqueued + 1 /\ enqueued < MaxFrames
    BY <1>2 DEF S!EnqueueResponse
  <2>2. enqueued' \in 1..MaxFrames /\ enqueued' \in 0..MaxFrames
    BY <1>n, <2>1
  <2>3. f \in Frame
    BY <2>2, BytesType DEF Frame
  <2>4. queue' = Append(queue, f)
    BY <1>2 DEF S!EnqueueResponse
  <2> HIDE DEF f
  <2>5. queue' \in Seq(Frame)
    BY <1>t, <2>3, <2>4
  <2> QED
    BY <1>t, <1>n, <1>2, <2>2, <2>5 DEF S!EnqueueResponse, SimTypes
<1>3. ASSUME NEW e \in Errors, S!Fails(e)
      PROVE  SimTypes'
  <2>1. out' \in Out
    BY <1>3, OutType, BytesType DEF S!Fails
  <2> QED
    BY <1>t, <1>n, <1>3, <2>1 DEF S!Fails, SimTypes
<1>4. CASE Opens
  <2>1. out' \in Out
    BY <1>4, OutType, BytesType DEF Opens
  <2>2. phase' \in 0..3
    <3>1. phase' = 0 \/ phase' = phase
      BY <1>4 DEF Opens
    <3> QED
      BY <1>t, <3>1
  <2>3. past' \subseteq 1..MaxFrames /\ now' \subseteq 1..MaxFrames
    BY <1>n, <1>4 DEF Opens
  <2>4. parts' \in Seq(PartNames) /\ inProgress' \in BOOLEAN /\ UNCHANGED <<mode, queue, hasResponse, enqueued>>
    <3>1. parts' = <<>> /\ inProgress' \in BOOLEAN /\ UNCHANGED <<mode, queue, hasResponse, enqueued>>
      BY <1>4 DEF Opens
    <3> QED
      BY <3>1
  <2> QED
    BY <1>t, <1>n, <2>1, <2>2, <2>3, <2>4 DEF SimTypes
<1>5. CASE Closes
  <2>1. out' \in Out
    BY <1>5, OutType, BytesType DEF Closes
  <2>2. queue' \in Seq(Frame)
    <3>1. queue' = IF queue = <<>> THEN <<>> ELSE Tail(queue)
      BY <1>5 DEF Closes
    <3> QED
      BY <1>t, <3>1
  <2> QED
    BY <1>t, <1>n, <1>5, <2>1, <2>2 DEF Closes, SimTypes
<1>6. CASE Serves
  <2>1. Head(queue) \in Frame
    <3>1. queue # <<>>
      BY <1>6 DEF Serves
    <3> QED
      BY <1>t, <3>1
  <2>2. Head(queue).no \in 1..MaxFrames /\ Head(queue).bytes \in S!Bytes
    BY <2>1 DEF Frame
  <2>3. out' \in Out
    BY <1>6, <2>2, OutType DEF Serves
  <2>4. now' \subseteq 1..MaxFrames
    BY <1>n, <1>6, <2>2 DEF Serves
  <2> QED
    BY <1>t, <1>n, <1>6, <2>3, <2>4 DEF Serves, SimTypes
<1>7. CASE Absorbs
  <2>1. out' \in Out
    BY <1>7, OutType, BytesType DEF Absorbs, S!Absorb
  <2> QED
    BY <1>t, <1>n, <1>7, <2>1 DEF Absorbs, S!Absorb, SimTypes
<1>8. CASE Gives
  <2>1. PICK bytes \in {<<1, 0>>, <<2, 0>>, <<0, 0>>, <<1, 255>>} : out' = [err |-> "", bytes |-> bytes]
    BY <1>8, GivesNext
  <2>2. bytes \in S!Bytes
    BY BytesType
  <2>3. out' \in Out
    BY <2>1, <2>2, OutType
  <2>4. PICK name \in PartNames : parts' = Append(parts, name)
    BY <1>8, GivesNext DEF PartNames
  <2>5. parts' \in Seq(PartNames)
    BY <1>t, <2>4
  <2>6. phase \in {0, 1, 2} /\ phase' = phase + 1
    BY <1>8, GivesNext
  <2>7. phase' \in 0..3
    BY <2>6
  <2>8. hasResponse' \in BOOLEAN /\ UNCHANGED <<mode, queue, inProgress, enqueued, past, now>>
    BY <1>8, GivesNext
  <2> QED
    BY <1>t, <1>n, <2>3, <2>5, <2>7, <2>8 DEF SimTypes
<1> QED
  BY <1>1, <1>2, <1>3, <1>4, <1>5, <1>6, <1>7, <1>8, SimCases

LEMMA SimTypeInit == SystemInit => SimTypes
<1> SUFFICES ASSUME SystemInit PROVE SimTypes
  OBVIOUS
<1>1. out \in Out
  BY OutType, BytesType DEF SystemInit, S!Init
<1>2. enqueued = 0 /\ phase = 0 /\ queue = <<>> /\ parts = <<>>
  BY DEF SystemInit, S!Init
<1>3. enqueued \in 0..MaxFrames /\ phase \in 0..3 /\ queue \in Seq(Frame) /\ parts \in Seq(PartNames)
  BY <1>2, SimL1Assumption
<1>4. mode \in Modes /\ inProgress \in BOOLEAN /\ hasResponse \in BOOLEAN /\ past = {} /\ now = {}
  BY DEF SystemInit, S!Init
<1> QED
  BY <1>1, <1>2, <1>3, <1>4 DEF SimTypes

\* L1, the simulator and the two together keep their types.
THEOREM SystemTyping == SystemSpec => []SystemTypeOK
<1>1. SystemInit => SimTypes
  BY SimTypeInit
<1>2. SimTypes /\ [SystemNext]_systemVars => SimTypes'
  BY SystemStepIsSim, SimTypeStep
<1>3. TypeOK /\ SimTypes => SystemTypeOK
  BY SimTypesAreTypes DEF SystemTypeOK
<1> QED
  BY <1>1, <1>2, <1>3, OnEitherTransport, Typing, PTL DEF SystemSpec

-----------------------------------------------------------------------------
\* L1 keeps to the rules of the simulator.

\* The simulator is in a selection exactly when L1 transfers in one, and the one
\* transfer of a selection starts a response.
UseInv ==
  /\ releasing => setup = "simulator" /\ pc = "transfer"
  /\ setup = "simulator" =>
       /\ inProgress <=> pc \in {"transfer", "csnHigh"}
       /\ mode = "stateful" /\ pc = "transfer" /\ ~releasing => phase = 0

LEMMA UseInit == SystemInit => UseInv /\ NoMisuse
<1> SUFFICES ASSUME SystemInit PROVE UseInv /\ NoMisuse
  OBVIOUS
<1>1. pc = "idle" /\ inProgress = FALSE /\ releasing = FALSE /\ out = [err |-> "", bytes |-> <<0, 0>>]
  BY DEF SystemInit, S!Init, Init
<1>2. out.err = ""
  BY <1>1
<1> QED
  BY <1>1, <1>2 DEF UseInv, NoMisuse

\* The results of the calls that L1 makes where it makes them.
LEMMA SelectSucceeds ==
  ASSUME ~inProgress, S!CSNLow
  PROVE  /\ out'.err = "" /\ inProgress' = TRUE /\ (mode = "stateful" => phase' = 0) /\ UNCHANGED mode
<1>1. out' = [err |-> "", bytes |-> <<0, 0>>]
  BY DEF S!CSNLow
<1>2. out'.err = ""
  BY <1>1
<1> QED
  BY <1>2 DEF S!CSNLow

LEMMA ReleaseSucceeds ==
  ASSUME inProgress, S!CSNHigh
  PROVE  out'.err = "" /\ inProgress' = FALSE /\ UNCHANGED mode
<1>1. out' = [err |-> "", bytes |-> <<0, 0>>]
  BY DEF S!CSNHigh
<1>2. out'.err = ""
  BY <1>1
<1> QED
  BY <1>2 DEF S!CSNHigh

LEMMA TransferKeepsSelection ==
  ASSUME inProgress, mode = "stateful" => phase = 0, S!Transfer(2)
  PROVE  out'.err \in {"", "empty"} /\ UNCHANGED <<inProgress, mode>>
<1>1. CASE mode = "queued" /\ S!TransferQueued
  <2>1. PICK err \in {"", "empty"}, bytes \in {<<0, 0>>, Head(queue).bytes} : out' = [err |-> err, bytes |-> bytes]
    BY <1>1 DEF S!TransferQueued, S!Fails
  <2>2. out'.err \in {"", "empty"}
    BY <2>1
  <2> QED
    BY <1>1, <2>2 DEF S!TransferQueued, S!Fails
<1>2. CASE mode = "stateful" /\ S!transferStateful(2)
  <2>1. CASE S!Absorb
    <3>1. out' = [err |-> "", bytes |-> <<0, 0>>]
      BY <2>1 DEF S!Absorb
    <3>2. out'.err = ""
      BY <3>1
    <3> QED
      BY <2>1, <3>2 DEF S!Absorb
  <2>2. CASE S!Part("poll", <<S!READY, 0>>)
    <3>1. out' = [err |-> "", bytes |-> <<S!READY, 0>>]
      BY <2>2 DEF S!Part
    <3>2. out'.err = ""
      BY <3>1
    <3> QED
      BY <2>2, <3>2 DEF S!Part
  <2>3. phase = 0
    BY <1>2
  <2>4. ~(2 < 1) /\ 0 # 1 /\ 0 # 2 /\ 0 # 3
    OBVIOUS
  <2>5. S!Absorb \/ S!Part("poll", <<S!READY, 0>>)
    BY <1>2, <2>3, <2>4, Zenon DEF S!transferStateful
  <2> QED
    BY <2>1, <2>2, <2>5
<1> QED
  BY <1>1, <1>2 DEF S!Transfer

LEMMA UseStep == UseInv /\ NoMisuse /\ [SystemNext]_systemVars => UseInv' /\ NoMisuse'
<1> SUFFICES ASSUME UseInv, NoMisuse, [SystemNext]_systemVars
             PROVE  UseInv' /\ NoMisuse'
  OBVIOUS
<1>0. UNCHANGED setup
  BY DEF SystemNext, systemVars
<1>1. CASE setup # "test" /\ CallL1
  <2>1. pc = "idle" /\ pc' = "loop" /\ UNCHANGED <<inProgress, mode, phase, out, releasing>>
    BY <1>1 DEF CallL1, ReadCall, WriteCall, simVars
  <2> QED
    BY <1>0, <2>1 DEF UseInv, NoMisuse
<1>2. CASE OnHardware
  <2>1. setup = "hardware" /\ UNCHANGED <<inProgress, mode, phase, out, releasing>>
    BY <1>2 DEF OnHardware, simVars
  <2>2. ~releasing
    BY <2>1 DEF UseInv
  <2> QED
    BY <1>0, <2>1, <2>2 DEF UseInv, NoMisuse
<1>3. CASE setup = "simulator" /\ Compute
  <2>1. pc \in {"loop", "inspect", "delay"} /\ pc' \in {"csnLow", "idle", "delay", "loop"}
    BY <1>3 DEF Compute, Refill, Exhausted, Inspect, Delay, Return
  <2>2. UNCHANGED <<inProgress, mode, phase, out, releasing>>
    BY <1>3 DEF Compute, simVars
  <2> QED
    BY <1>0, <1>3, <2>1, <2>2 DEF UseInv, NoMisuse
<1>4. CASE setup = "simulator" /\ Selects
  <2>1. pc = "csnLow" /\ ~releasing /\ S!CSNLow /\ releasing' = releasing
    BY <1>4 DEF Selects, Calls
  <2>2. ~inProgress
    BY <1>4, <2>1 DEF UseInv
  <2>3. out'.err = "" /\ inProgress' = TRUE /\ (mode = "stateful" => phase' = 0) /\ UNCHANGED mode
    BY <2>1, <2>2, SelectSucceeds
  <2>4. pc' = "transfer"
    BY <1>4, <2>3 DEF Selects, Calls, CSNLow
  <2> QED
    BY <1>0, <1>4, <2>1, <2>3, <2>4 DEF UseInv, NoMisuse
<1>5. CASE setup = "simulator" /\ Transfers
  <2>1. pc = "transfer" /\ ~releasing /\ S!Transfer(2)
    BY <1>5 DEF Transfers, Calls
  <2>2. inProgress /\ (mode = "stateful" => phase = 0)
    BY <1>5, <2>1 DEF UseInv
  <2>3. out'.err \in {"", "empty"} /\ UNCHANGED <<inProgress, mode>>
    BY <2>1, <2>2, TransferKeepsSelection
  <2>4. CASE pc' = "csnHigh" /\ releasing' = releasing
    BY <1>0, <1>5, <2>1, <2>2, <2>3, <2>4 DEF UseInv, NoMisuse
  <2>5. CASE releasing' = TRUE /\ UNCHANGED pc
    BY <1>0, <1>5, <2>1, <2>2, <2>3, <2>5 DEF UseInv, NoMisuse
  <2> QED
    BY <1>5, <2>4, <2>5 DEF Transfers, Calls, Transfer, vars
<1>6. CASE setup = "simulator" /\ Releases
  <2>1. pc = "csnHigh" /\ ~releasing /\ S!CSNHigh /\ releasing' = releasing
    BY <1>6 DEF Releases, Calls
  <2>2. inProgress
    BY <1>6, <2>1 DEF UseInv
  <2>3. out'.err = "" /\ inProgress' = FALSE /\ UNCHANGED mode
    BY <2>1, <2>2, ReleaseSucceeds
  <2>4. pc' = "inspect"
    BY <1>6, <2>3 DEF Releases, Calls, CSNHigh
  <2> QED
    BY <1>0, <1>6, <2>1, <2>3, <2>4 DEF UseInv, NoMisuse
<1>7. CASE setup = "simulator" /\ ReleasesAfterFailure
  <2>1. releasing /\ S!CSNHigh /\ releasing' = FALSE /\ pc = "transfer" /\ pc' = "idle"
    BY <1>7 DEF ReleasesAfterFailure, TransferFails, Return
  <2>2. inProgress
    BY <1>7, <2>1 DEF UseInv
  <2>3. out'.err = "" /\ inProgress' = FALSE /\ UNCHANGED mode
    BY <2>1, <2>2, ReleaseSucceeds
  <2> QED
    BY <1>0, <1>7, <2>1, <2>3 DEF UseInv, NoMisuse
<1>8. CASE setup = "simulator" /\ Enqueues
  <2>1. UNCHANGED <<pc, inProgress, mode, phase, out, releasing>>
    BY <1>8 DEF Enqueues, S!Enqueue, S!EnqueueResponse, vars
  <2> QED
    BY <1>0, <1>8, <2>1 DEF UseInv, NoMisuse
<1>9. CASE setup = "test" /\ UNCHANGED <<vars, releasing>>
  <2>1. ~releasing
    BY <1>9 DEF UseInv
  <2> QED
    BY <1>0, <1>9, <2>1 DEF UseInv, NoMisuse
<1>10. CASE UNCHANGED systemVars
  <2>1. UNCHANGED <<pc, inProgress, mode, phase, out, releasing>>
    BY <1>10 DEF systemVars, vars, simVars
  <2> QED
    BY <1>0, <2>1 DEF UseInv, NoMisuse
<1> QED
  BY <1>1, <1>2, <1>3, <1>4, <1>5, <1>6, <1>7, <1>8, <1>9, <1>10 DEF SystemNext, OnSimulator

\* L1 never opens a selection twice, closes none that is not open and transfers
\* inside of one, with a buffer that is long enough, whatever was enqueued.
THEOREM RulesKept == SystemSpec => []NoMisuse
BY UseInit, UseStep, PTL DEF SystemSpec

\* On the simulator the CSNHigh after a failing Transfer is a step of its own.
SystemStepsLeft == 2 * StepsLeft - (IF releasing THEN 1 ELSE 0)

\* A call has at most twelve steps for each of its polls and two more; each step of the
\* driver uses one up, and no step of another goroutine adds to them.
SystemCallIsBounded ==
  [][/\ pc = "idle" => SystemStepsLeft' \in 0..(12 * l1MaxRetries + 2)
     /\ OnHardware \/ OnSimulator => SystemStepsLeft' \in 0..(SystemStepsLeft - 1)
     /\ pc # "idle" => SystemStepsLeft' \in 0..SystemStepsLeft]_systemVars

LEMMA SystemTurn ==
  ASSUME OnHardware \/ OnSimulator
  PROVE  Step \/ (UNCHANGED vars /\ ~releasing /\ releasing' = TRUE)
BY DEF OnHardware, OnSimulator, Compute, Selects, Transfers, Releases, ReleasesAfterFailure,
       Calls, Step

\* The others leave L1 where it is, or call it.
LEMMA OtherTurn ==
  ASSUME [SystemNext]_systemVars, ~(OnHardware \/ OnSimulator)
  PROVE  UNCHANGED releasing /\ (UNCHANGED vars \/ ReadCall \/ \E r \in Requests : WriteCall(r))
BY DEF SystemNext, CallL1, Enqueues, systemVars

\* No call of l1Write or l1Read takes more steps than that, on either transport.
THEOREM BoundedSystemCalls == SystemSpec => SystemCallIsBounded
<1> DEFINE Fewer ==
             /\ pc = "idle" => SystemStepsLeft' \in 0..(12 * l1MaxRetries + 2)
             /\ OnHardware \/ OnSimulator => SystemStepsLeft' \in 0..(SystemStepsLeft - 1)
             /\ pc # "idle" => SystemStepsLeft' \in 0..SystemStepsLeft
<1>1. ASSUME TypeOK, TypeOK', UseInv, UseInv', [SystemNext]_systemVars
      PROVE  Fewer
  <2>1. /\ StepsLeft \in Nat /\ StepsLeft' \in Nat /\ l1MaxRetries \in Nat
        /\ pc = "idle" => StepsLeft = 0
        /\ pc # "idle" => StepsLeft > 0
    BY <1>1, LeftType, LeftTypeNext, L1Assumption DEF StepsLeft
  <2>2. /\ releasing => pc # "idle"
        /\ releasing' => pc' # "idle"
    BY <1>1 DEF UseInv
  <2>3. pc' # "idle" => StepsLeft' > 0
    <3>1. TypeOK' /\ pc' # "idle" => StepsLeft' > 0
      <4>1. TypeOK' => l1MaxRetries \in Nat /\ tries' \in Nat /\ tries' <= l1MaxRetries
        BY L1Assumption DEF TypeOK
      <4>2. TypeOK' /\ pc' # "idle" => Place[pc'] \in 1..6
        BY DEF TypeOK, Place
      <4> QED
        BY <4>1, <4>2 DEF StepsLeft
    <3> QED
      BY <1>1, <3>1
  <2>4. /\ SystemStepsLeft \in Nat /\ SystemStepsLeft >= 2 * StepsLeft - 1
        /\ ~releasing => SystemStepsLeft = 2 * StepsLeft
    BY <2>1, <2>2 DEF SystemStepsLeft
  <2>8. SystemStepsLeft' \in Nat /\ SystemStepsLeft' <= 2 * StepsLeft'
    <3> DEFINE l == StepsLeft'
               r == IF releasing' THEN 1 ELSE 0
    <3>1. SystemStepsLeft' = 2 * l - r
      BY DEF SystemStepsLeft
    <3>2. l \in Nat /\ r \in {0, 1} /\ (r = 1 => l > 0)
      BY <2>1, <2>2, <2>3
    <3> HIDE DEF l, r
    <3>3. SystemStepsLeft' \in Nat /\ SystemStepsLeft' <= 2 * l
      BY <3>1, <3>2
    <3> QED
      BY <3>3 DEF l
  <2>5. CASE Step
    <3>1. pc # "idle" /\ StepsLeft' < StepsLeft
      BY <1>1, <2>5, LeftStep
    <3>2. \A a, b, m, n : /\ a \in Nat /\ b \in Nat /\ m \in Nat /\ n \in Nat
                           /\ b < a /\ m >= 2 * a - 1 /\ n <= 2 * b
                           => n < m
      OBVIOUS
    <3>3. SystemStepsLeft' < SystemStepsLeft
      BY <2>1, <2>4, <2>8, <3>1, <3>2
    <3> QED
      BY <2>4, <2>8, <3>1, <3>3
  <2>6. CASE UNCHANGED vars /\ ~releasing /\ releasing' = TRUE
    <3>1. StepsLeft' = StepsLeft /\ UNCHANGED pc
      BY <2>6 DEF vars, StepsLeft
    <3>2. SystemStepsLeft' = 2 * StepsLeft - 1 /\ pc # "idle"
      BY <2>2, <2>6, <3>1 DEF SystemStepsLeft
    <3> QED
      BY <2>1, <2>4, <2>8, <2>6, <3>2
  <2>7. CASE ~(OnHardware \/ OnSimulator)
    <3>1. UNCHANGED releasing
      BY <1>1, <2>7, OtherTurn
    <3>2. CASE UNCHANGED vars
      <4>1. StepsLeft' = StepsLeft /\ UNCHANGED pc
        BY <3>2 DEF vars, StepsLeft
      <4>2. SystemStepsLeft' = SystemStepsLeft
        BY <3>1, <4>1 DEF SystemStepsLeft
      <4> QED
        BY <2>1, <2>2, <2>4, <2>8, <2>7, <4>2
    <3>3. CASE ReadCall \/ \E r \in Requests : WriteCall(r)
      <4>1. pc = "idle" /\ pc' = "loop" /\ tries' = 0
        BY <3>3 DEF ReadCall, WriteCall
      <4>2. StepsLeft' = 6 * (l1MaxRetries - 0) + 1
        BY <4>1 DEF StepsLeft, Place
      <4> QED
        BY <2>1, <2>4, <2>8, <2>7, <4>1, <4>2
    <3> QED
      BY <1>1, <2>7, <3>2, <3>3, OtherTurn
  <2> QED
    BY <2>5, <2>6, <2>7, SystemTurn
<1>2. SystemSpec => []TypeOK
  BY OnEitherTransport, Typing, PTL
<1>3. SystemSpec => []UseInv
  BY UseInit, UseStep, PTL DEF SystemSpec
<1>4. ASSUME TypeOK, TypeOK', UseInv, UseInv', [SystemNext]_systemVars
      PROVE  [Fewer]_systemVars
  BY <1>1, <1>4
<1> QED
  BY <1>2, <1>3, <1>4, PTL DEF SystemSpec, SystemCallIsBounded

-----------------------------------------------------------------------------
\* What a selection serves.

\* The frames are numbered in the order of the queue, all behind those that were
\* served; what this selection serves is the head of the queue until its end.
QueueInv ==
  /\ \A i \in DOMAIN queue : queue[i].no <= enqueued
  /\ \A i, j \in DOMAIN queue : i < j => queue[i].no < queue[j].no
  /\ \A n \in past \union now : n <= enqueued
  /\ \A n \in past : \A i \in DOMAIN queue : n < queue[i].no
  /\ ~inProgress => \A n \in now : \A i \in DOMAIN queue : n < queue[i].no
  /\ \A p \in past, n \in now : p < n
  /\ \A m, n \in now : m = n
  /\ inProgress /\ now # {} => queue # <<>> /\ now = {queue[1].no}

\* The parts that were given are those before the phase, and a response that was
\* begun is still owed.
PartsInv ==
  mode = "stateful" /\ inProgress =>
    /\ phase = 0 => parts = <<>>
    /\ phase = 1 => parts = <<"poll">>
    /\ phase = 2 => parts = <<"poll", "header">>
    /\ phase = 3 => parts = <<"poll", "header", "data">>
    /\ phase \in {1, 2} => hasResponse

LEMMA ServedInit == SystemInit => QueueInv /\ PartsInv
<1> SUFFICES ASSUME SystemInit PROVE QueueInv /\ PartsInv
  OBVIOUS
<1>1. queue = <<>> /\ past = {} /\ now = {} /\ inProgress = FALSE
  BY DEF SystemInit, S!Init
<1> QED
  BY <1>1 DEF QueueInv, PartsInv

\* The numbers are numbers.
LEMMA Numbers ==
  ASSUME SimTypes
  PROVE  /\ queue \in Seq(Frame) /\ Len(queue) \in Nat /\ DOMAIN queue = 1..Len(queue)
         /\ \A i \in DOMAIN queue : queue[i].no \in Nat
         /\ past \subseteq Nat /\ now \subseteq Nat /\ enqueued \in Nat
<1>1. queue \in Seq(Frame)
  BY DEF SimTypes
<1>2. \A f \in Frame : f.no \in Nat
  BY SimL1Assumption DEF Frame
<1>3. past \subseteq Nat /\ now \subseteq Nat /\ enqueued \in Nat
  BY SimL1Assumption DEF SimTypes
<1> QED
  BY <1>1, <1>2, <1>3

LEMMA QueueStep ==
  ASSUME SimTypes, QueueInv, SimStep \/ UNCHANGED simVars
  PROVE  QueueInv'
<1>t. /\ queue \in Seq(Frame) /\ Len(queue) \in Nat /\ DOMAIN queue = 1..Len(queue)
      /\ \A i \in DOMAIN queue : queue[i].no \in Nat
      /\ past \subseteq Nat /\ now \subseteq Nat /\ enqueued \in Nat
  BY Numbers
<1>1. ASSUME UNCHANGED <<queue, enqueued, past, now, inProgress>>
      PROVE  QueueInv'
  BY <1>1 DEF QueueInv
<1>2. ASSUME NEW bytes \in S!Responses, S!EnqueueResponse(bytes)
      PROVE  QueueInv'
  <2> DEFINE f == [no |-> enqueued + 1, bytes |-> bytes]
  <2>1. /\ enqueued' = enqueued + 1 /\ UNCHANGED <<past, now, inProgress>>
        /\ queue' = Append(queue, f)
    BY <1>2 DEF S!EnqueueResponse
  <2>2. f.no = enqueued + 1
    OBVIOUS
  <2> HIDE DEF f
  <2>3. /\ DOMAIN queue' = 1..(Len(queue) + 1) /\ queue'[Len(queue) + 1] = f
        /\ \A i \in 1..Len(queue) : queue'[i] = queue[i]
    BY <1>t, <2>1
  <2>4. \A i \in DOMAIN queue' : IF i = Len(queue) + 1 THEN queue'[i].no = enqueued + 1
                                 ELSE i \in DOMAIN queue /\ queue'[i].no = queue[i].no
    BY <1>t, <2>2, <2>3
  <2>5. \A i \in DOMAIN queue' : queue'[i].no <= enqueued'
    BY <1>t, <2>1, <2>4 DEF QueueInv
  <2>6. \A i, j \in DOMAIN queue' : i < j => queue'[i].no < queue'[j].no
    <3> SUFFICES ASSUME NEW i \in DOMAIN queue', NEW j \in DOMAIN queue', i < j
                 PROVE  queue'[i].no < queue'[j].no
      OBVIOUS
    <3>1. i # Len(queue) + 1 /\ i \in DOMAIN queue /\ queue'[i].no = queue[i].no
      BY <1>t, <2>3, <2>4
    <3>2. CASE j = Len(queue) + 1
      BY <1>t, <2>4, <3>1, <3>2 DEF QueueInv
    <3>3. CASE j # Len(queue) + 1
      BY <2>4, <3>1, <3>3 DEF QueueInv
    <3> QED
      BY <3>2, <3>3
  <2>7. \A n \in past \union now : n <= enqueued'
    BY <1>t, <2>1 DEF QueueInv
  <2>8. \A n \in past : \A i \in DOMAIN queue' : n < queue'[i].no
    BY <1>t, <2>4 DEF QueueInv
  <2>9. ~inProgress => \A n \in now : \A i \in DOMAIN queue' : n < queue'[i].no
    BY <1>t, <2>4 DEF QueueInv
  <2>10. inProgress /\ now # {} => queue' # <<>> /\ now = {queue'[1].no}
    <3> SUFFICES ASSUME inProgress, now # {}
                 PROVE  queue' # <<>> /\ now = {queue'[1].no}
      OBVIOUS
    <3>1. queue # <<>> /\ now = {queue[1].no}
      BY DEF QueueInv
    <3>2. 1 \in 1..Len(queue) /\ 1 \in DOMAIN queue'
      BY <1>t, <2>3, <3>1
    <3> QED
      BY <2>3, <3>1, <3>2
  <2> QED
    BY <2>1, <2>5, <2>6, <2>7, <2>8, <2>9, <2>10 DEF QueueInv
<1>4. CASE Opens
  <2>1. /\ ~inProgress /\ inProgress' = TRUE /\ past' = past \union now /\ now' = {}
        /\ UNCHANGED <<queue, enqueued>>
    BY <1>4 DEF Opens
  <2> QED
    BY <2>1 DEF QueueInv
<1>5. CASE Closes
  <2>1. /\ inProgress /\ inProgress' = FALSE /\ UNCHANGED <<enqueued, past, now>>
        /\ queue' = IF queue = <<>> THEN <<>> ELSE Tail(queue)
    BY <1>5 DEF Closes
  <2>2. \A i \in DOMAIN queue' : /\ i \in Nat /\ i >= 1 /\ i + 1 \in DOMAIN queue /\ 1 \in DOMAIN queue
                                 /\ queue'[i] = queue[i + 1]
    BY <1>t, <2>1
  <2>3. \A i, j \in DOMAIN queue' : i < j => queue'[i].no < queue'[j].no
    BY <2>2 DEF QueueInv
  <2>4. \A n \in now : \A i \in DOMAIN queue' : n < queue'[i].no
    <3> SUFFICES ASSUME NEW n \in now, NEW i \in DOMAIN queue' PROVE n < queue'[i].no
      OBVIOUS
    <3>1. n = queue[1].no
      BY <2>1 DEF QueueInv
    <3>2. queue[1].no < queue[i + 1].no
      BY <2>2 DEF QueueInv
    <3> QED
      BY <2>2, <3>1, <3>2
  <2>5. \A i \in DOMAIN queue' : queue'[i].no <= enqueued
    BY <2>2 DEF QueueInv
  <2>6. \A n \in past : \A i \in DOMAIN queue' : n < queue'[i].no
    BY <2>2 DEF QueueInv
  <2> QED
    BY <2>1, <2>3, <2>4, <2>5, <2>6 DEF QueueInv
<1>6. CASE Serves
  <2>1. /\ inProgress /\ queue # <<>> /\ now' = now \union {Head(queue).no}
        /\ UNCHANGED <<queue, inProgress, enqueued, past>>
    BY <1>6 DEF Serves
  <2>2. 1 \in DOMAIN queue /\ Head(queue) = queue[1]
    BY <1>t, <2>1
  <2>3. now' = {queue[1].no}
    BY <2>1, <2>2 DEF QueueInv
  <2> QED
    BY <2>1, <2>2, <2>3 DEF QueueInv
<1>7. CASE \/ \E e \in Errors : S!Fails(e)
           \/ Absorbs \/ Gives \/ UNCHANGED simVars
  <2>1. UNCHANGED <<queue, enqueued, past, now, inProgress>>
    BY <1>7, GivesNext DEF S!Fails, Absorbs, S!Absorb, simVars
  <2> QED
    BY <1>1, <2>1
<1> QED
  BY <1>2, <1>4, <1>5, <1>6, <1>7, SimCases

\* The part that is given is that of the phase.
LEMMA PartNext ==
  ASSUME NEW name \in {"poll", "header", "data"}, NEW bytes, S!Part(name, bytes)
  PROVE  /\ phase' = phase + 1 /\ parts' = Append(parts, name)
         /\ name # "data" => hasResponse'
<1>1. hasResponse' = (name # "data")
  BY DEF S!Part
<1>2. name # "data" => hasResponse'
  BY <1>1
<1> QED
  BY <1>2 DEF S!Part

LEMMA Appended ==
  /\ Append(<<>>, "poll") = <<"poll">>
  /\ Append(<<"poll">>, "header") = <<"poll", "header">>
  /\ Append(<<"poll", "header">>, "data") = <<"poll", "header", "data">>
<1>1. Append(<<>>, "poll") = <<"poll">>
  OBVIOUS
<1>2. Append(<<"poll">>, "header") = <<"poll", "header">>
  <2>1. <<"poll">> \in Seq(PartNames) /\ "header" \in PartNames /\ Len(<<"poll">>) = 1
    BY DEF PartNames
  <2>2. <<"poll", "header">> \in Seq(PartNames) /\ Len(<<"poll", "header">>) = 2
    BY DEF PartNames
  <2>3. \A i \in 1..2 : Append(<<"poll">>, "header")[i] = <<"poll", "header">>[i]
    BY <2>1, AppendProperties
  <2>4. Append(<<"poll">>, "header") \in Seq(PartNames) /\ Len(Append(<<"poll">>, "header")) = 2
    BY <2>1, AppendProperties
  <2> DEFINE s == Append(<<"poll">>, "header")
             t == <<"poll", "header">>
  <2>5. /\ s \in Seq(PartNames) /\ t \in Seq(PartNames) /\ Len(s) = Len(t)
        /\ \A i \in 1..Len(s) : s[i] = t[i]
    BY <2>2, <2>3, <2>4
  <2> HIDE DEF s, t
  <2>6. s = t
    BY <2>5, SeqEqual
  <2> QED
    BY <2>6 DEF s, t
<1>3. Append(<<"poll", "header">>, "data") = <<"poll", "header", "data">>
  <2>1. <<"poll", "header">> \in Seq(PartNames) /\ "data" \in PartNames /\ Len(<<"poll", "header">>) = 2
    BY DEF PartNames
  <2>2. <<"poll", "header", "data">> \in Seq(PartNames) /\ Len(<<"poll", "header", "data">>) = 3
    BY DEF PartNames
  <2>3. \A i \in 1..3 : Append(<<"poll", "header">>, "data")[i] = <<"poll", "header", "data">>[i]
    BY <2>1, AppendProperties
  <2>4. Append(<<"poll", "header">>, "data") \in Seq(PartNames) /\ Len(Append(<<"poll", "header">>, "data")) = 3
    BY <2>1, AppendProperties
  <2> DEFINE s == Append(<<"poll", "header">>, "data")
             t == <<"poll", "header", "data">>
  <2>5. /\ s \in Seq(PartNames) /\ t \in Seq(PartNames) /\ Len(s) = Len(t)
        /\ \A i \in 1..Len(s) : s[i] = t[i]
    BY <2>2, <2>3, <2>4
  <2> HIDE DEF s, t
  <2>6. s = t
    BY <2>5, SeqEqual
  <2> QED
    BY <2>6 DEF s, t
<1> QED
  BY <1>1, <1>2, <1>3

LEMMA GivesInOrder ==
  ASSUME Gives
  PROVE  \/ phase = 0 /\ parts' = Append(parts, "poll") /\ phase' = 1 /\ hasResponse'
         \/ phase = 1 /\ parts' = Append(parts, "header") /\ phase' = 2 /\ hasResponse'
         \/ phase = 2 /\ parts' = Append(parts, "data") /\ phase' = 3
<1>1. \/ phase = 0 /\ \E bytes : S!Part("poll", bytes)
      \/ phase = 1 /\ \E bytes : S!Part("header", bytes)
      \/ phase = 2 /\ \E bytes : S!Part("data", bytes)
  BY Zenon DEF Gives
<1>2. CASE phase = 0 /\ \E bytes : S!Part("poll", bytes)
  <2>1. phase' = phase + 1 /\ parts' = Append(parts, "poll") /\ hasResponse'
    BY <1>2, PartNext
  <2> QED
    BY <1>2, <2>1
<1>3. CASE phase = 1 /\ \E bytes : S!Part("header", bytes)
  <2>1. phase' = phase + 1 /\ parts' = Append(parts, "header") /\ hasResponse'
    BY <1>3, PartNext
  <2> QED
    BY <1>3, <2>1
<1>4. CASE phase = 2 /\ \E bytes : S!Part("data", bytes)
  <2>1. phase' = phase + 1 /\ parts' = Append(parts, "data")
    BY <1>4, PartNext
  <2> QED
    BY <1>4, <2>1
<1> QED
  BY <1>1, <1>2, <1>3, <1>4

LEMMA PartsStep ==
  ASSUME SimTypes, PartsInv, SimStep \/ UNCHANGED simVars
  PROVE  PartsInv'
<1>1. CASE \/ \E bytes \in S!Responses : S!EnqueueResponse(bytes)
           \/ \E e \in Errors : S!Fails(e)
           \/ UNCHANGED simVars
  <2>1. UNCHANGED <<mode, inProgress, phase, parts, hasResponse>>
    BY <1>1 DEF S!EnqueueResponse, S!Fails, simVars
  <2> QED
    BY <2>1 DEF PartsInv
<1>2. CASE Opens
  <2>1. (mode = "stateful" => phase' = 0) /\ parts' = <<>> /\ UNCHANGED mode
    BY <1>2 DEF Opens
  <2> QED
    BY <2>1 DEF PartsInv
<1>3. CASE Closes \/ Serves
  <2>1. ~(mode' = "stateful" /\ inProgress')
    BY <1>3 DEF Closes, Serves
  <2> QED
    BY <2>1 DEF PartsInv
<1>4. CASE Absorbs
  <2>1. hasResponse' = TRUE /\ UNCHANGED <<mode, inProgress, phase, parts>>
    BY <1>4 DEF Absorbs, S!Absorb
  <2> QED
    BY <2>1 DEF PartsInv
<1>5. CASE Gives
  <2>1. inProgress /\ mode = "stateful" /\ UNCHANGED <<mode, inProgress>>
    BY <1>5, GivesNext DEF Gives
  <2>2. CASE phase = 0 /\ parts' = Append(parts, "poll") /\ phase' = 1 /\ hasResponse'
    <3>1. parts = <<>>
      BY <2>1, <2>2 DEF PartsInv
    <3>2. parts' = <<"poll">>
      BY <2>2, <3>1, Appended
    <3>3. phase' # 0 /\ phase' # 2 /\ phase' # 3
      BY <2>2
    <3> QED
      BY <2>2, <3>2, <3>3, Zenon DEF PartsInv
  <2>3. CASE phase = 1 /\ parts' = Append(parts, "header") /\ phase' = 2 /\ hasResponse'
    <3>1. parts = <<"poll">>
      BY <2>1, <2>3 DEF PartsInv
    <3>2. parts' = <<"poll", "header">>
      BY <2>3, <3>1, Appended
    <3>3. phase' # 0 /\ phase' # 1 /\ phase' # 3
      BY <2>3
    <3> QED
      BY <2>3, <3>2, <3>3, Zenon DEF PartsInv
  <2>4. CASE phase = 2 /\ parts' = Append(parts, "data") /\ phase' = 3
    <3>1. parts = <<"poll", "header">>
      BY <2>1, <2>4 DEF PartsInv
    <3>2. parts' = <<"poll", "header", "data">>
      BY <2>4, <3>1, Appended
    <3>3. phase' # 0 /\ phase' # 1 /\ phase' # 2
      BY <2>4
    <3> QED
      BY <2>4, <3>2, <3>3, Zenon DEF PartsInv
  <2> QED
    BY <1>5, <2>2, <2>3, <2>4, GivesInOrder
<1> QED
  BY <1>1, <1>2, <1>3, <1>4, <1>5, SimCases

LEMMA ServedAlways == SystemSpec => [](SimTypes /\ QueueInv /\ PartsInv)
<1>1. SystemInit => SimTypes /\ QueueInv /\ PartsInv
  BY SimTypeInit, ServedInit
<1>2. SimTypes /\ QueueInv /\ PartsInv /\ [SystemNext]_systemVars => (SimTypes /\ QueueInv /\ PartsInv)'
  BY SystemStepIsSim, SimTypeStep, QueueStep, PartsStep
<1> QED
  BY <1>1, <1>2, PTL DEF SystemSpec

\* At most one frame in a set without two different ones.
LEMMA AtMostOne ==
  ASSUME NEW T, \A m, n \in T : m = n
  PROVE  Cardinality(T) <= 1
<1>1. CASE T = {}
  BY <1>1, FS_EmptySet
<1>2. CASE T # {}
  <2>1. PICK x \in T : T = {x}
    BY <1>2
  <2>2. Cardinality({x}) = 1
    BY FS_Singleton
  <2> QED
    BY <2>1, <2>2
<1> QED
  BY <1>1, <1>2

LEMMA PartsArePrefix ==
  ASSUME SimTypes, PartsInv
  PROVE  S!ResponseInOneSelection
<1> DEFINE all == <<"poll", "header", "data">>
<1> SUFFICES ASSUME mode = "stateful", inProgress
             PROVE  S!IsPrefix(parts, all) /\ (parts # <<>> /\ Len(parts) < 3 => hasResponse)
  BY DEF S!ResponseInOneSelection
<1>1. phase \in 0..3
  BY DEF SimTypes
<1>2. CASE phase = 0
  <2>1. parts = <<>>
    BY <1>2 DEF PartsInv
  <2> QED
    BY <2>1 DEF S!IsPrefix
<1>3. CASE phase = 1
  <2>1. parts = <<"poll">> /\ hasResponse
    BY <1>3 DEF PartsInv
  <2>2. S!IsPrefix(<<"poll">>, all)
    BY DEF S!IsPrefix
  <2> QED
    BY <2>1, <2>2
<1>4. CASE phase = 2
  <2>1. parts = <<"poll", "header">> /\ hasResponse
    BY <1>4 DEF PartsInv
  <2>2. S!IsPrefix(<<"poll", "header">>, all)
    BY DEF S!IsPrefix
  <2> QED
    BY <2>1, <2>2
<1>5. CASE phase = 3
  <2>1. parts = <<"poll", "header", "data">>
    BY <1>5 DEF PartsInv
  <2>2. S!IsPrefix(all, all)
    BY DEF S!IsPrefix
  <2>3. Len(all) = 3
    OBVIOUS
  <2> QED
    BY <2>1, <2>2, <2>3
<1> QED
  BY <1>1, <1>2, <1>3, <1>4, <1>5

\* Each selection serves one frame, in the order of the queue, and the parts of a
\* stateful response come in order and in one selection, whoever calls.
THEOREM Served == SystemSpec => []SelectionsServed
<1>1. ASSUME SimTypes, QueueInv, PartsInv
      PROVE  SelectionsServed
  <2>1. Cardinality(now) <= 1
    BY <1>1, AtMostOne DEF QueueInv
  <2>2. S!Cardinality(now) = Cardinality(now)
    BY DEF S!Cardinality, Cardinality
  <2>3. S!OneFramePerSelection
    BY <1>1, <2>1, <2>2 DEF QueueInv, S!OneFramePerSelection
  <2> QED
    BY <1>1, <2>3, PartsArePrefix DEF SelectionsServed
<1> QED
  BY <1>1, ServedAlways, PTL
=============================================================================
